---- MODULE Spec2Model ----
(***************************************************************************)
(* Model of the generic row service of tomulator: the row routes of the    *)
(* express server and the query builders they call (updateRow, insertRow,  *)
(* deleteRow, getTableData), run against a small model of the PostgreSQL   *)
(* database that executes the statements they issue.                       *)
(*                                                                         *)
(* A statement is kept structured (kind, table, column list, placeholder   *)
(* numbers, bound parameter list): the database binds the i-th placeholder *)
(* to the i-th parameter, so a builder that misaligns them is observable.  *)
(***************************************************************************)
EXTENDS Integers, Sequences, FiniteSets, TLC

\* ------------------------------------------------------------------ bounds
\* highest value the id sequence of a table may reach, and highest row id a
\* request names
MaxId == 2
\* ------------------------------------------------------------------ values
\* A scalar as the driver carries it: a tagged value, so that values of
\* different JavaScript types stay comparable.
Null == [k |-> "null", n |-> 0, s |-> ""]
IntV(i) == [k |-> "int", n |-> i, s |-> ""]
TextV(str) == [k |-> "text", n |-> 0, s |-> str]

TimeV(str) == [k |-> "time", n |-> 0, s |-> str]

\* Timestamps are symbolic: the one CURRENT_TIMESTAMP yields when a row is
\* inserted, and one a client puts in a payload.
ServerTime == TimeV("CURRENT_TIMESTAMP")
ClientTime == TimeV("2001-01-01")

\* ------------------------------------------------------------------ schema
ColumnDef(name, type, notnull, dflt) ==
  [name |-> name, type |-> type, notnull |-> notnull, dflt |-> dflt]

\* CREATE TABLE users (id SERIAL PRIMARY KEY, unique_user_string VARCHAR NOT NULL)
UsersColumns ==
  << ColumnDef("id", "SERIAL", TRUE, "nextval"),
     ColumnDef("unique_user_string", "VARCHAR", TRUE, "") >>

\* A table made by createTable from the designer's initial id column plus an
\* is_deleted TEXT column with default false: createTable renders
\*   id SERIAL NOT NULL PRIMARY KEY, is_deleted TEXT DEFAULT 'false'
\* and then adds created_at TIMESTAMP DEFAULT CURRENT_TIMESTAMP.
NotesColumns ==
  << ColumnDef("id", "SERIAL", TRUE, "nextval"),
     ColumnDef("is_deleted", "TEXT", FALSE, "'false'"),
     ColumnDef("created_at", "TIMESTAMP", FALSE, "CURRENT_TIMESTAMP") >>

EmptyTable(cols) == [cols |-> cols, rows |-> {}, seq |-> 0]

\* The table names a request can carry in its path.
TableNames == {"users", "notes"}

ColNames(tab) == {tab.cols[i].name : i \in 1..Len(tab.cols)}
ColOf(tab, c) == CHOOSE d \in {tab.cols[i] : i \in 1..Len(tab.cols)} : d.name = c

\* ------------------------------------------------------------------ state
VARIABLES
  tables,           \* public schema: table name -> [cols, rows, seq]
  otherSchemaCols,  \* <<table_name, column_name>> of tables in other schemas
  last,             \* the request being answered and its response
  roundTrip,        \* history: the soft delete a later undelete refers to
  render,           \* a ColumnSpec and the column definition createTable builds for it
  create,           \* the table request being answered and its response
  form,             \* the table designer: its fields, its error, the request it sent
  startup,          \* the server's listen attempts and the ports that are taken
  race,             \* a deleteRow call between its check and its statement
  grid              \* the data grid: its state hooks and the fetches in flight

hostVars == <<startup, race, grid>>
vars == <<tables, otherSchemaCols, last, roundTrip, render, create, form, hostVars>>

\* ------------------------------------------------------- request payloads
\* A JSON object is an ordered list of key/value entries with distinct keys
\* (Object.keys and Object.values walk it in the same order).
Entry(key, val) == [key |-> key, val |-> val]

\* The values a client sends under each key: of the type of the column the
\* key names, NULL where a client may clear a field.
ValuesOf(key) ==
  CASE key = "id" -> {IntV(i) : i \in 1..MaxId}
    [] key = "created_at" -> {ClientTime}
    [] key = "updated_at" -> {ClientTime}
    [] key = "unique_user_string" -> {TextV("user_001"), TextV("user_002"), Null}
    [] key = "is_deleted" -> {TextV("true"), TextV("false")}

PayloadKeys == {"id", "created_at", "updated_at", "unique_user_string", "is_deleted"}

Entries == UNION {{Entry(key, v) : v \in ValuesOf(key)} : key \in PayloadKeys}

\* The request bodies of the model: the empty object, one key, two keys.
Payloads ==
  {<< >>} \cup {<<e>> : e \in Entries}
          \cup {p \in Entries \X Entries : p[1].key # p[2].key}

Keys(data) == [i \in 1..Len(data) |-> data[i].key]
Values(data) == [i \in 1..Len(data) |-> data[i].val]
HasKey(data, key) == \E i \in 1..Len(data) : data[i].key = key
Get(data, key) == data[CHOOSE i \in 1..Len(data) : data[i].key = key].val

\* --------------------------------------------------------------- database
\* One SET item or one INSERT column: the column and the placeholder ($ph)
\* it is bound to; ph = 0 marks a literal written into the SQL text.
Item(col, ph, lit) == [col |-> col, ph |-> ph, lit |-> lit]

Statement(kind, t, items, whereph, params) ==
  [kind |-> kind, table |-> t, items |-> items, whereph |-> whereph, params |-> params]

ItemValue(st, i) ==
  IF st.items[i].ph = 0 THEN st.items[i].lit ELSE st.params[st.items[i].ph]
ItemCols(st) == {st.items[i].col : i \in 1..Len(st.items)}
ItemOf(st, c) == CHOOSE i \in 1..Len(st.items) : st.items[i].col = c

NoRow == [c \in {} |-> Null]

Failed(db, err) == [ok |-> FALSE, err |-> err, tables |-> db, rows |-> << >>, rowCount |-> 0]
Done(db, rows, n) == [ok |-> TRUE, err |-> "", tables |-> db, rows |-> rows, rowCount |-> n]

\* The value a column takes when an INSERT does not list it.
DefaultValue(tab, d) ==
  CASE d.dflt = "nextval" -> IntV(tab.seq + 1)
    [] d.dflt = "CURRENT_TIMESTAMP" -> ServerTime
    [] d.dflt = "'false'" -> TextV("false")
    [] OTHER -> Null

ViolatesNotNull(tab, row) == \E c \in ColNames(tab) : ColOf(tab, c).notnull /\ row[c] = Null

\* INSERT INTO t (cols) VALUES ($1, ..) RETURNING *
ExecInsert(db, st) ==
  IF st.table \notin DOMAIN db THEN Failed(db, "relation does not exist")
  ELSE LET tab == db[st.table] IN
    IF Len(st.items) = 0 THEN Failed(db, "syntax error")
    ELSE IF ~(ItemCols(st) \subseteq ColNames(tab)) THEN Failed(db, "column does not exist")
    ELSE
      LET usesSeq == \E c \in ColNames(tab) \ ItemCols(st) : ColOf(tab, c).dflt = "nextval"
          row == [c \in ColNames(tab) |->
                    IF c \in ItemCols(st) THEN ItemValue(st, ItemOf(st, c))
                    ELSE DefaultValue(tab, ColOf(tab, c))]
          \* nextval is not rolled back when the statement fails later
          seqd == [db EXCEPT ![st.table].seq = IF usesSeq THEN @ + 1 ELSE @]
      IN IF ViolatesNotNull(tab, row) THEN Failed(seqd, "null value violates not-null constraint")
         ELSE IF \E r \in tab.rows : r["id"] = row["id"]
           THEN Failed(seqd, "duplicate key value violates unique constraint")
         ELSE Done([seqd EXCEPT ![st.table].rows = @ \cup {row}], <<row>>, 1)

\* UPDATE t SET col = $i, .. WHERE id = $k RETURNING *
ExecUpdate(db, st) ==
  IF st.table \notin DOMAIN db THEN Failed(db, "relation does not exist")
  ELSE LET tab == db[st.table] IN
    IF ~(ItemCols(st) \subseteq ColNames(tab)) THEN Failed(db, "column does not exist")
    ELSE
      LET hit == {r \in tab.rows : r["id"] = st.params[st.whereph]}
          new(r) == [c \in ColNames(tab) |->
                       IF c \in ItemCols(st) THEN ItemValue(st, ItemOf(st, c)) ELSE r[c]]
      IN IF hit = {} THEN Done(db, << >>, 0)
         ELSE LET r == CHOOSE x \in hit : TRUE IN
           IF ViolatesNotNull(tab, new(r))
             THEN Failed(db, "null value violates not-null constraint")
           ELSE IF \E o \in tab.rows \ {r} : o["id"] = new(r)["id"]
             THEN Failed(db, "duplicate key value violates unique constraint")
           ELSE Done([db EXCEPT ![st.table].rows = (@ \ {r}) \cup {new(r)}], <<new(r)>>, 1)

\* DELETE FROM t WHERE id = $k
ExecDelete(db, st) ==
  IF st.table \notin DOMAIN db THEN Failed(db, "relation does not exist")
  ELSE LET hit == {r \in db[st.table].rows : r["id"] = st.params[st.whereph]}
       IN Done([db EXCEPT ![st.table].rows = @ \ hit], << >>, Cardinality(hit))

\* SELECT column_name FROM information_schema.columns
\*   WHERE table_name = $1 AND column_name = '<lit>'
\* The view lists the columns of every schema; the statement's only item
\* carries the column name as its literal and the table name as parameter 1.
ExecCatalog(db, other, st) ==
  LET t == st.params[1].s
      c == st.items[1].lit.s
      inPublic == IF t \in DOMAIN db /\ c \in ColNames(db[t]) THEN 1 ELSE 0
      inOther == IF <<t, c>> \in other THEN 1 ELSE 0
  IN Done(db, [i \in 1..(inPublic + inOther) |-> NoRow], inPublic + inOther)

\* pool.query(text, params)
Query(db, other, st) ==
  CASE st.kind = "INSERT" -> ExecInsert(db, st)
    [] st.kind = "UPDATE" -> ExecUpdate(db, st)
    [] st.kind = "DELETE" -> ExecDelete(db, st)
    [] st.kind = "CATALOG" -> ExecCatalog(db, other, st)

\* ------------------------------------------------------------ row service
\* What a call of a query function comes to: the value it returns or the
\* error it throws, the database afterwards, the statements it issued.
Returned(value, db, stmts) ==
  [threw |-> FALSE, err |-> "", value |-> value, tables |-> db, stmts |-> stmts]
Threw(err, db, stmts) ==
  [threw |-> TRUE, err |-> err, value |-> NoRow, tables |-> db, stmts |-> stmts]

\* A row a function returns; result.rows[0] of an empty result is undefined.
RowValue(row) == [kind |-> "row", row |-> row, flag |-> FALSE]
Undefined == [kind |-> "undefined", row |-> NoRow, flag |-> FALSE]
BoolValue(b) == [kind |-> "boolean", row |-> NoRow, flag |-> b]

FirstRow(res) == IF Len(res.rows) > 0 THEN RowValue(res.rows[1]) ELSE Undefined

\* A destructuring that forgets the timestamp keys.
StripServerKeys_OnlyId(data) == SelectSeq(data, LAMBDA e : e.key # "id")

\* const { id: _, created_at, updated_at, ...updateData } = data
StripServerKeys(data) ==
  SelectSeq(data, LAMBDA e : e.key \notin {"id", "created_at", "updated_at"})

\* A builder that binds the id first and the values after it.
UpdateStatement_IdFirst(t, id, updateData) ==
  Statement("UPDATE", t,
            [i \in 1..Len(updateData) |-> Item(updateData[i].key, i, Null)],
            Len(updateData) + 1,
            <<IntV(id)>> \o Values(updateData))

\* columns.map((col, index) => `${col} = $${index + 1}`), WHERE id = $${values.length + 1},
\* parameters [...values, id]
UpdateStatement(t, id, updateData) ==
  Statement("UPDATE", t,
            [i \in 1..Len(updateData) |-> Item(updateData[i].key, i, Null)],
            Len(updateData) + 1,
            Values(updateData) \o <<IntV(id)>>)

updateRow(db, other, t, id, data) ==
  LET updateData == StripServerKeys(data) IN
  IF Len(updateData) = 0 THEN Threw("No valid columns to update", db, << >>)
  ELSE LET st == UpdateStatement(t, id, updateData)
           res == Query(db, other, st)
       IN IF res.ok THEN Returned(FirstRow(res), res.tables, <<st>>)
          ELSE Threw(res.err, res.tables, <<st>>)

\* A builder that writes the values into the SQL text as literals.
InsertStatement_Inlined(t, data) ==
  Statement("INSERT", t, [i \in 1..Len(data) |-> Item(data[i].key, 0, data[i].val)], 0, << >>)

\* A builder that passes the values in reverse order.
InsertStatement_Reversed(t, data) ==
  Statement("INSERT", t, [i \in 1..Len(data) |-> Item(data[i].key, i, Null)], 0,
            [i \in 1..Len(data) |-> data[Len(data) + 1 - i].val])

\* INSERT INTO t (columns.join(', ')) VALUES ($1, .., $n) RETURNING *, parameters values
InsertStatement(t, data) ==
  Statement("INSERT", t, [i \in 1..Len(data) |-> Item(data[i].key, i, Null)], 0, Values(data))

insertRow(db, other, t, data) ==
  LET st == InsertStatement(t, data)
      res == Query(db, other, st)
  IN IF res.ok THEN Returned(FirstRow(res), res.tables, <<st>>)
     ELSE Threw(res.err, res.tables, <<st>>)

\* DELETE FROM t WHERE id = $1
DeleteStatement(t, id) == Statement("DELETE", t, << >>, 1, <<IntV(id)>>)

\* A soft delete that removes the row.
SoftDeleteStatement_Removes(t, id) == Statement("DELETE", t, << >>, 1, <<IntV(id)>>)

\* A soft delete that writes a boolean-looking flag other than 'true'.
SoftDeleteStatement_Flag(t, id) ==
  Statement("UPDATE", t, <<Item("is_deleted", 0, TextV("t"))>>, 1, <<IntV(id)>>)

\* UPDATE t SET is_deleted = 'true' WHERE id = $1
SoftDeleteStatement(t, id) ==
  Statement("UPDATE", t, <<Item("is_deleted", 0, TextV("true"))>>, 1, <<IntV(id)>>)

\* SELECT column_name FROM information_schema.columns
\*   WHERE table_name = $1 AND column_name = 'is_deleted'
IsDeletedCheck(t) ==
  Statement("CATALOG", t, <<Item("column_name", 0, TextV("is_deleted"))>>, 0, <<TextV(t)>>)

\* One data statement of deleteRow: run it and return rowCount > 0.
RunCounted(db, other, st, before) ==
  LET res == Query(db, other, st)
  IN IF res.ok THEN Returned(BoolValue(res.rowCount > 0), res.tables, before \o <<st>>)
     ELSE Threw(res.err, res.tables, before \o <<st>>)

\* A deleteRow that takes the soft path whatever hardDelete says.
deleteRow_IgnoresHard(db, other, t, id, hardDelete) ==
  LET check == IsDeletedCheck(t)
      schemaResult == Query(db, other, check)
  IN IF Len(schemaResult.rows) > 0
       THEN RunCounted(db, other, SoftDeleteStatement(t, id), <<check>>)
       ELSE RunCounted(db, other, DeleteStatement(t, id), <<check>>)

deleteRow(db, other, t, id, hardDelete) ==
  IF hardDelete THEN RunCounted(db, other, DeleteStatement(t, id), << >>)
  ELSE LET check == IsDeletedCheck(t)
           schemaResult == Query(db, other, check)
       IN IF Len(schemaResult.rows) > 0
            THEN RunCounted(db, other, SoftDeleteStatement(t, id), <<check>>)
            ELSE RunCounted(db, other, DeleteStatement(t, id), <<check>>)

\* SELECT * FROM t ORDER BY id
RECURSIVE SortById(_)
SortById(rows) ==
  IF rows = {} THEN << >>
  ELSE LET first == CHOOSE r \in rows : \A o \in rows : r["id"].n <= o["id"].n
       IN <<first>> \o SortById(rows \ {first})

\* A listing that leaves out the soft-deleted rows.
getTableData_HidesDeleted(db, t) ==
  IF t \in DOMAIN db
    THEN [ok |-> TRUE,
          rows |-> SortById({r \in db[t].rows :
                     "is_deleted" \in DOMAIN r => r["is_deleted"] # TextV("true")})]
  ELSE [ok |-> FALSE, rows |-> << >>]

getTableData(db, t) ==
  IF t \in DOMAIN db THEN [ok |-> TRUE, rows |-> SortById(db[t].rows)]
  ELSE [ok |-> FALSE, rows |-> << >>]

\* ----------------------------------------------------------------- routes
MessageBody == [kind |-> "message", row |-> NoRow, flag |-> FALSE]
ErrorBody == [kind |-> "error", row |-> NoRow, flag |-> FALSE]

\* res.status(status).json(..): the body, and for an error body its error
\* text and, where the route attaches it, the details text.
Response(status, body, error, hasDetails, details) ==
  [status |-> status, body |-> body, error |-> error,
   hasDetails |-> hasDetails, details |-> details]

\* app.put('/api/tables/:tableName/rows/:id')
PutResponse(r) ==
  IF r.threw THEN Response(500, ErrorBody, "Failed to update row", TRUE, r.err)
  ELSE Response(200, r.value, "", FALSE, "")

\* app.post('/api/tables/:tableName/rows')
PostResponse(r) ==
  IF r.threw THEN Response(500, ErrorBody, "Failed to insert row", TRUE, r.err)
  ELSE Response(200, r.value, "", FALSE, "")

\* app.delete('/api/tables/:tableName/rows/:id')
DeleteResponse(r) ==
  IF r.threw THEN Response(500, ErrorBody, "Failed to delete row", FALSE, "")
  ELSE IF r.value.flag THEN Response(200, MessageBody, "", FALSE, "")
  ELSE Response(404, ErrorBody, "Row not found", FALSE, "")

\* app.delete('/api/tables/:tableName/rows/:id/hard-delete')
HardDeleteResponse(r) ==
  IF r.threw THEN Response(500, ErrorBody, "Failed to permanently delete row", FALSE, "")
  ELSE IF r.value.flag THEN Response(200, MessageBody, "", FALSE, "")
  ELSE Response(404, ErrorBody, "Row not found", FALSE, "")

\* app.get('/api/tables/:tableName/data')
DataResponse(r) ==
  IF r.ok THEN Response(200, [kind |-> "list", row |-> NoRow, flag |-> FALSE], "", FALSE, "")
  ELSE Response(500, ErrorBody, "Failed to fetch table data", FALSE, "")

\* The request the server is answering, with its response, the statements
\* it issued and the database it started from; op "none" when idle.
Exchange(op, t, id, data, resp, list, stmts, pre) ==
  [op |-> op, table |-> t, id |-> id, payload |-> data, resp |-> resp,
   list |-> list, stmts |-> stmts, pre |-> pre]

Idle == Exchange("none", "", 0, << >>, Response(0, ErrorBody, "", FALSE, ""), << >>, << >>,
                 [t \in {} |-> EmptyTable(<< >>)])

\* History of a soft delete of a live row, kept until the next request:
\* the listing before the delete, and whether the next request was the
\* update that sets is_deleted back to false.
NoRoundTrip == [open |-> FALSE, closed |-> FALSE, table |-> "", id |-> 0, before |-> << >>]

IsLiveRow(db, t, id) ==
  /\ t \in DOMAIN db
  /\ "is_deleted" \in ColNames(db[t])
  /\ \E r \in db[t].rows : r["id"] = IntV(id) /\ r["is_deleted"] = TextV("false")

Undelete == <<Entry("is_deleted", TextV("false"))>>

\* ----------------------------------------------------------------- text
\* The text of a request field is a sequence of characters; Text joins it
\* into the string the database stores and compares.
LowerCase ==
  <<"a", "b", "c", "d", "e", "f", "g", "h", "i", "j", "k", "l", "m",
    "n", "o", "p", "q", "r", "s", "t", "u", "v", "w", "x", "y", "z">>
UpperCase ==
  <<"A", "B", "C", "D", "E", "F", "G", "H", "I", "J", "K", "L", "M",
    "N", "O", "P", "Q", "R", "S", "T", "U", "V", "W", "X", "Y", "Z">>
DigitChars == <<"0", "1", "2", "3", "4", "5", "6", "7", "8", "9">>

Range(seq) == {seq[i] : i \in 1..Len(seq)}
Letters == Range(LowerCase) \cup Range(UpperCase)
Digits == Range(DigitChars)

RECURSIVE Text(_)
Text(chars) == IF chars = << >> THEN "" ELSE Head(chars) \o Text(Tail(chars))

\* /^[a-zA-Z_][a-zA-Z0-9_]*$/.test(chars)
MatchesIdentifierPattern(chars) ==
  /\ Len(chars) > 0
  /\ chars[1] \in Letters \cup {"_"}
  /\ \A i \in 2..Len(chars) : chars[i] \in Letters \cup Digits \cup {"_"}

\* PostgreSQL reads an unquoted identifier: a letter or underscore, then
\* letters, digits, underscores and dollar signs.
IsSqlIdentifier(chars) ==
  /\ Len(chars) > 0
  /\ chars[1] \in Letters \cup {"_"}
  /\ \A i \in 2..Len(chars) : chars[i] \in Letters \cup Digits \cup {"_", "$"}

\* PostgreSQL folds an unquoted identifier to lower case.
FoldChar(c) ==
  IF c \in Range(UpperCase)
    THEN LowerCase[CHOOSE i \in 1..Len(UpperCase) : UpperCase[i] = c]
  ELSE c
Fold(chars) == Text([i \in 1..Len(chars) |-> FoldChar(chars[i])])

\* An unsigned integer literal greater than zero.
IsPositiveInteger(chars) ==
  /\ Len(chars) > 0
  /\ \A i \in 1..Len(chars) : chars[i] \in Digits
  /\ \E i \in 1..Len(chars) : chars[i] # "0"

\* ----------------------------------------------------------- createTable
\* One element of the columns array of a create-table request.
ColumnSpec(name, type, isNullable, isPrimaryKey, defaultValue, isAutoIncrement) ==
  [name |-> name, type |-> type, isNullable |-> isNullable, isPrimaryKey |-> isPrimaryKey,
   defaultValue |-> defaultValue, isAutoIncrement |-> isAutoIncrement]

\* The column types: those createTable treats specially and one of the rest.
dataTypes ==
  {"SERIAL", "INTEGER", "BIGINT", "TEXT", "VARCHAR", "CHAR", "BOOLEAN", "TIMESTAMP",
   "NUMERIC", "DECIMAL"}

\* The type of a column definition: its name and, when it is written
\* TYPE(size), the text between the parentheses.
BareType(name) == [name |-> name, sized |-> FALSE, size |-> << >>]
SizedType(name, size) == [name |-> name, sized |-> TRUE, size |-> size]

\* A clause appended to a column definition; expr is the text after
\* DEFAULT, quoted when it is written between single quotes.
Clause(kw, quoted, expr) == [kw |-> kw, quoted |-> quoted, expr |-> expr]

\* A type that is sized by a constant and never by the defaultValue field.
TypeText_FixedSize(col) ==
  IF col.type \in {"VARCHAR", "CHAR"} THEN SizedType(col.type, <<"2", "5", "5">>)
  ELSE IF col.type \in {"NUMERIC", "DECIMAL"} THEN SizedType(col.type, <<"1", "0", ",", "2">>)
  ELSE BareType(col.type)

\* col.defaultValue || '255' is the length of a VARCHAR or CHAR,
\* col.defaultValue || '10,2' the precision of a NUMERIC or DECIMAL; the
\* empty string is the only falsy string.
TypeText(col) ==
  IF col.type \in {"VARCHAR", "CHAR"}
    THEN SizedType(col.type,
                   IF col.defaultValue # << >> THEN col.defaultValue ELSE <<"2", "5", "5">>)
  ELSE IF col.type \in {"NUMERIC", "DECIMAL"}
    THEN SizedType(col.type,
                   IF col.defaultValue # << >> THEN col.defaultValue
                   ELSE <<"1", "0", ",", "2">>)
  ELSE BareType(col.type)

ConstraintClauses(col) ==
  (IF ~col.isNullable THEN <<Clause("NOT NULL", FALSE, << >>)>> ELSE << >>)
  \o (IF col.isPrimaryKey THEN <<Clause("PRIMARY KEY", FALSE, << >>)>> ELSE << >>)
  \o (IF col.isAutoIncrement /\ col.type \in {"INTEGER", "BIGINT"}
        THEN <<Clause("GENERATED ALWAYS AS IDENTITY", FALSE, << >>)>> ELSE << >>)

\* A DEFAULT clause that is written for auto-increment columns too.
DefaultClause_IgnoresAutoIncrement(col) ==
  IF col.defaultValue # << >> /\ col.type # "SERIAL"
    THEN IF col.type \in {"TEXT", "VARCHAR", "CHAR"}
           THEN <<Clause("DEFAULT", TRUE, col.defaultValue)>>
         ELSE <<Clause("DEFAULT", FALSE, col.defaultValue)>>
  ELSE << >>

DefaultClause(col) ==
  IF col.defaultValue # << >> /\ col.type # "SERIAL" /\ ~col.isAutoIncrement
    THEN IF col.type = "BOOLEAN"
           THEN <<Clause("DEFAULT", FALSE, col.defaultValue)>>
         ELSE IF col.type \in {"TEXT", "VARCHAR", "CHAR"}
           THEN <<Clause("DEFAULT", TRUE, col.defaultValue)>>
         ELSE <<Clause("DEFAULT", FALSE, col.defaultValue)>>
  ELSE << >>

\* One element of columnDefinitions: the name, the type and the clauses in
\* the order they are appended.
columnDefinition(col) ==
  [name |-> col.name, type |-> TypeText(col),
   clauses |-> ConstraintClauses(col) \o DefaultClause(col)]

NoDefinition == [name |-> << >>, type |-> BareType(""), clauses |-> << >>]

\* CREATE TABLE ${tableName} ( ${columnDefinitions.join(', ')} ) and
\* ALTER TABLE ${tableName} ADD COLUMN ..., as the text they are built from.
DdlStatement(kind, tableName, defs) == [kind |-> kind, table |-> tableName, defs |-> defs]

HasClause(def, kw) == \E i \in 1..Len(def.clauses) : def.clauses[i].kw = kw
ClauseOf(def, kw) == def.clauses[CHOOSE i \in 1..Len(def.clauses) : def.clauses[i].kw = kw]

\* A NUMERIC precision: p or p,s with p at least 1.
IsPrecision(chars) ==
  \/ IsPositiveInteger(chars)
  \/ \E k \in 2..(Len(chars) - 1) :
       /\ chars[k] = ","
       /\ IsPositiveInteger(SubSeq(chars, 1, k - 1))
       /\ \A i \in (k + 1)..Len(chars) : chars[i] \in Digits

\* Whether PostgreSQL accepts the type as written.
TypeParses(type) ==
  CASE type.name \in {"VARCHAR", "CHAR"} -> type.sized => IsPositiveInteger(type.size)
    [] type.name \in {"NUMERIC", "DECIMAL"} -> type.sized => IsPrecision(type.size)
    [] OTHER -> type.name \in dataTypes /\ ~type.sized

\* Whether PostgreSQL accepts the DEFAULT expression for a column of the
\* type: a quoted literal for a character type, an unsigned integer for a
\* numeric type, true or false for a boolean.
DefaultParses(type, cl) ==
  \/ cl.quoted /\ type.name \in {"TEXT", "VARCHAR", "CHAR"}
  \/ /\ ~cl.quoted
     /\ type.name \in {"INTEGER", "BIGINT", "NUMERIC", "DECIMAL"}
     /\ Len(cl.expr) > 0
     /\ \A i \in 1..Len(cl.expr) : cl.expr[i] \in Digits
  \/ /\ ~cl.quoted
     /\ type.name = "BOOLEAN"
     /\ Text(cl.expr) \in {"true", "false"}

DefinitionParses(def) ==
  /\ IsSqlIdentifier(def.name)
  /\ TypeParses(def.type)
  /\ HasClause(def, "DEFAULT") => DefaultParses(def.type, ClauseOf(def, "DEFAULT"))
  /\ ~(HasClause(def, "DEFAULT") /\ HasClause(def, "GENERATED ALWAYS AS IDENTITY"))

\* The catalog entry of a column made from a definition.
ColumnOf(def) ==
  ColumnDef(Fold(def.name), def.type.name,
            \/ HasClause(def, "NOT NULL")
            \/ HasClause(def, "PRIMARY KEY")
            \/ HasClause(def, "GENERATED ALWAYS AS IDENTITY")
            \/ def.type.name = "SERIAL",
            IF def.type.name = "SERIAL" THEN "nextval"
            ELSE IF HasClause(def, "GENERATED ALWAYS AS IDENTITY") THEN "identity"
            ELSE IF ~HasClause(def, "DEFAULT") THEN ""
            ELSE IF ClauseOf(def, "DEFAULT").quoted
              THEN "'" \o Text(ClauseOf(def, "DEFAULT").expr) \o "'"
            ELSE Text(ClauseOf(def, "DEFAULT").expr))

WithTable(db, t, tab) == [u \in DOMAIN db \cup {t} |-> IF u = t THEN tab ELSE db[u]]

\* PostgreSQL runs a CREATE TABLE: a syntax error for an identifier, a type
\* or a default it cannot read, an error for a table that exists, a column
\* named twice or a second primary key; otherwise the table is in public.
ExecCreate(db, st) ==
  LET n == Len(st.defs)
      cols == [i \in 1..n |-> ColumnOf(st.defs[i])]
  IN IF ~IsSqlIdentifier(st.table) \/ \E i \in 1..n : ~DefinitionParses(st.defs[i])
       THEN Failed(db, "syntax error")
     ELSE IF Fold(st.table) \in DOMAIN db
       THEN Failed(db, "relation already exists")
     ELSE IF \E i, j \in 1..n : i < j /\ cols[i].name = cols[j].name
       THEN Failed(db, "column specified more than once")
     ELSE IF \E i, j \in 1..n :
               i < j /\ HasClause(st.defs[i], "PRIMARY KEY") /\ HasClause(st.defs[j], "PRIMARY KEY")
       THEN Failed(db, "multiple primary keys")
     ELSE Done(WithTable(db, Fold(st.table), EmptyTable(cols)), << >>, 0)

\* PostgreSQL runs an ALTER TABLE .. ADD COLUMN.
ExecAlter(db, st) ==
  LET t == Fold(st.table)
      col == ColumnOf(st.defs[1])
  IN IF ~IsSqlIdentifier(st.table) THEN Failed(db, "syntax error")
     ELSE IF t \notin DOMAIN db THEN Failed(db, "relation does not exist")
     ELSE IF col.name \in ColNames(db[t]) THEN Failed(db, "column already exists")
     ELSE Done([db EXCEPT ![t].cols = Append(@, col)], << >>, 0)

CreateStatement(tableName, columns) ==
  DdlStatement("CREATE", tableName, [i \in 1..Len(columns) |-> columnDefinition(columns[i])])

\* SELECT column_name FROM information_schema.columns
\* WHERE table_name = $1 AND column_name = 'created_at'
CreatedAtCheck(tableName) ==
  Statement("CATALOG", Text(tableName), <<Item("column_name", 0, TextV("created_at"))>>, 0,
            <<TextV(Text(tableName))>>)

\* ADD COLUMN created_at TIMESTAMP DEFAULT CURRENT_TIMESTAMP
CreatedAtDefinition ==
  [name |-> <<"c", "r", "e", "a", "t", "e", "d", "_", "a", "t">>,
   type |-> BareType("TIMESTAMP"),
   clauses |-> <<Clause("DEFAULT", FALSE,
                        <<"C", "U", "R", "R", "E", "N", "T", "_",
                          "T", "I", "M", "E", "S", "T", "A", "M", "P">>)>>]

AddCreatedAtStatement(tableName) == DdlStatement("ALTER", tableName, <<CreatedAtDefinition>>)

createTable(db, other, tableName, columns) ==
  LET st == CreateStatement(tableName, columns)
      made == ExecCreate(db, st)
      chk == CreatedAtCheck(tableName)
      has == ExecCatalog(made.tables, other, chk)
      add == AddCreatedAtStatement(tableName)
      added == ExecAlter(made.tables, add)
  IN IF ~made.ok THEN Threw(made.err, db, <<st>>)
     ELSE IF Len(has.rows) = 0
       THEN IF added.ok THEN Returned(Undefined, added.tables, <<st, chk, add>>)
            ELSE Threw(added.err, made.tables, <<st, chk, add>>)
     ELSE Returned(Undefined, made.tables, <<st, chk>>)

\* information_schema's data_type of a column.
DataType(type) ==
  CASE type \in {"SERIAL", "INTEGER"} -> "integer"
    [] type = "BIGINT" -> "bigint"
    [] type = "TEXT" -> "text"
    [] type = "VARCHAR" -> "character varying"
    [] type = "CHAR" -> "character"
    [] type = "BOOLEAN" -> "boolean"
    [] type = "TIMESTAMP" -> "timestamp without time zone"
    [] type \in {"NUMERIC", "DECIMAL"} -> "numeric"

\* SELECT table_name, table_schema FROM information_schema.tables
\* WHERE table_schema = 'public': the rows, as a set.
getAllTables(db) == {[table_name |-> t, table_schema |-> "public"] : t \in DOMAIN db}

\* DROP TABLE IF EXISTS ${tableName} CASCADE
DropStatement(tableName) ==
  [kind |-> "DROP", table |-> tableName, ifExists |-> TRUE, cascade |-> TRUE]

\* PostgreSQL runs a DROP TABLE IF EXISTS: a syntax error for a name it
\* cannot read, nothing for a table that is not there.
ExecDrop(db, st) ==
  IF ~IsSqlIdentifier(st.table) THEN Failed(db, "syntax error")
  ELSE IF Fold(st.table) \notin DOMAIN db
    THEN IF st.ifExists THEN Done(db, << >>, 0) ELSE Failed(db, "table does not exist")
  ELSE Done([t \in DOMAIN db \ {Fold(st.table)} |-> db[t]], << >>, 0)

\* A deleteTable whose statement leaves the table in place.
deleteTable_KeepsTable(db, tableName) ==
  LET st == DropStatement(tableName)
      dropped == ExecDrop(db, st)
  IN IF ~dropped.ok THEN Threw(dropped.err, db, <<st>>)
     ELSE Returned(Undefined, db, <<st>>)

deleteTable(db, tableName) ==
  LET st == DropStatement(tableName)
      dropped == ExecDrop(db, st)
  IN IF ~dropped.ok THEN Threw(dropped.err, db, <<st>>)
     ELSE Returned(Undefined, dropped.tables, <<st>>)

\* SELECT column_name, data_type, is_nullable, column_default
\* FROM information_schema.columns
\* WHERE table_name = $1 AND table_schema = 'public' ORDER BY ordinal_position
getTableSchema(db, t) ==
  IF t \in DOMAIN db
    THEN [i \in 1..Len(db[t].cols) |->
            [column_name |-> db[t].cols[i].name,
             data_type |-> DataType(db[t].cols[i].type),
             is_nullable |-> IF db[t].cols[i].notnull THEN "NO" ELSE "YES"]]
  ELSE << >>

\* A field of a JSON request body: absent, a string or an array.
Absent == [kind |-> "undefined", chars |-> << >>, items |-> << >>]
Str(chars) == [kind |-> "string", chars |-> chars, items |-> << >>]
Arr(items) == [kind |-> "array", chars |-> << >>, items |-> items]
Truthy(v) == v.kind = "array" \/ (v.kind = "string" /\ v.chars # << >>)

\* app.post('/api/tables/create'): the response and the call it made.
CreateCall(db, other, tableName, columns) ==
  IF ~Truthy(tableName) \/ ~Truthy(columns) \/ columns.kind # "array"
    THEN Returned(Undefined, db, << >>)
  ELSE createTable(db, other, tableName.chars, columns.items)

CreateResponse(tableName, columns, r) ==
  IF ~Truthy(tableName) \/ ~Truthy(columns) \/ columns.kind # "array"
    THEN Response(400, ErrorBody, "Invalid request data", FALSE, "")
  ELSE IF r.threw THEN Response(500, ErrorBody, "Failed to create table", TRUE, r.err)
  ELSE Response(200, MessageBody, "", FALSE, "")

\* DELETE /api/tables/:tableName: {message}, or the 500 of every route.
DeleteTableResponse(r) ==
  IF r.threw THEN Response(500, ErrorBody, "Failed to delete table", TRUE, r.err)
  ELSE Response(200, MessageBody, "", FALSE, "")

\* The table request the server is answering, with its response, the
\* statements it issued, the database it started from and, for a schema
\* request, the listing; op "none" when idle. History: made is the last
\* create-table request that was answered with success.
TableExchange(op, tableName, columns, resp, stmts, pre, list, made) ==
  [op |-> op, tableName |-> tableName, columns |-> columns, resp |-> resp,
   stmts |-> stmts, pre |-> pre, list |-> list, made |-> made]

NoneMade == [tableName |-> Absent, columns |-> Absent]
NoCreate == TableExchange("none", Absent, Absent, Response(0, ErrorBody, "", FALSE, ""),
                          << >>, [t \in {} |-> EmptyTable(<< >>)], << >>, NoneMade)
NoRender == [done |-> FALSE,
             col |-> ColumnSpec(<< >>, "", FALSE, FALSE, << >>, FALSE), def |-> NoDefinition]

\* -------------------------------------------------------- table designer
\* String.prototype.trim on the blank character.
RECURSIVE TrimStart(_)
TrimStart(chars) ==
  IF chars # << >> /\ Head(chars) = " " THEN TrimStart(Tail(chars)) ELSE chars
RECURSIVE TrimEnd(_)
TrimEnd(chars) ==
  IF chars # << >> /\ chars[Len(chars)] = " "
    THEN TrimEnd(SubSeq(chars, 1, Len(chars) - 1))
  ELSE chars
Trim(chars) == TrimEnd(TrimStart(chars))

\* A JavaScript number: NaN or an integer.
NaN == [nan |-> TRUE, n |-> 0]
Num(n) == [nan |-> FALSE, n |-> n]

DigitValue(c) == (CHOOSE i \in 1..Len(DigitChars) : DigitChars[i] = c) - 1
RECURSIVE LeadingDigits(_)
LeadingDigits(chars) ==
  IF chars # << >> /\ Head(chars) \in Digits
    THEN <<Head(chars)>> \o LeadingDigits(Tail(chars))
  ELSE << >>
RECURSIVE DecimalValue(_)
DecimalValue(ds) ==
  IF ds = << >> THEN 0
  ELSE 10 * DecimalValue(SubSeq(ds, 1, Len(ds) - 1)) + DigitValue(ds[Len(ds)])

\* parseInt(chars): blanks are skipped, then a sign, then the digits up to
\* the first other character; NaN when there is no digit.
parseInt(chars) ==
  LET t == TrimStart(chars)
      signed == t # << >> /\ Head(t) \in {"+", "-"}
      ds == LeadingDigits(IF signed THEN Tail(t) ELSE t)
  IN IF ds = << >> THEN NaN
     ELSE IF signed /\ Head(t) = "-" THEN Num(0 - DecimalValue(ds))
     ELSE Num(DecimalValue(ds))

\* x <= 0 for a JavaScript number: false for NaN.
NotAboveZero(x) == ~x.nan /\ x.n <= 0

\* useState of columns: the id column every new table starts with.
InitialColumns == <<ColumnSpec(<<"i", "d">>, "SERIAL", FALSE, TRUE, << >>, TRUE)>>

\* The JSON body of the create-table request.
RequestBody(tableName, columns) == [tableName |-> tableName, columns |-> columns]
NoRequest == RequestBody(Absent, Absent)

\* The designer: whether it is mounted, its state hooks, and the request
\* its fetch has in flight.
Form(open, tableName, columns, error, isSubmitting, sent) ==
  [open |-> open, tableName |-> tableName, columns |-> columns, error |-> error,
   isSubmitting |-> isSubmitting, sent |-> sent]

NoForm == Form(FALSE, << >>, << >>, "", FALSE, NoRequest)

addColumn(f) ==
  [f EXCEPT !.columns = Append(@, ColumnSpec(<< >>, "TEXT", TRUE, FALSE, << >>, FALSE))]

removeColumn(f, index) ==
  IF f.columns[index].isPrimaryKey
    THEN [f EXCEPT !.error = "Cannot remove primary key column"]
  ELSE [f EXCEPT !.columns = [i \in 1..(Len(f.columns) - 1) |->
                                IF i < index THEN f.columns[i] ELSE f.columns[i + 1]],
                 !.error = ""]

\* An updateColumn that leaves the other columns' isPrimaryKey alone.
updateColumn_KeepsOtherKeys(f, index, field, value) ==
  LET set == [f.columns[index] EXCEPT ![field] = value]
      typed ==
        IF field # "type" THEN set
        ELSE IF value = "SERIAL"
          THEN [set EXCEPT !.defaultValue = << >>, !.isAutoIncrement = TRUE]
        ELSE IF value \notin {"INTEGER", "BIGINT"}
          THEN [set EXCEPT !.isAutoIncrement = FALSE]
        ELSE set
  IN [f EXCEPT !.columns = [i \in 1..Len(f.columns) |->
                              IF i = index THEN typed ELSE f.columns[i]],
             !.error = ""]

\* newColumns[index] = {...newColumns[index], [field]: value} and the
\* special cases of the type and isPrimaryKey fields.
updateColumn(f, index, field, value) ==
  LET set == [f.columns[index] EXCEPT ![field] = value]
      typed ==
        IF field # "type" THEN set
        ELSE IF value = "SERIAL"
          THEN [set EXCEPT !.defaultValue = << >>, !.isAutoIncrement = TRUE]
        ELSE IF value \notin {"INTEGER", "BIGINT"}
          THEN [set EXCEPT !.isAutoIncrement = FALSE]
        ELSE set
  IN [f EXCEPT !.columns = [i \in 1..Len(f.columns) |->
                              IF i = index THEN typed
                              ELSE IF field = "isPrimaryKey" /\ value = TRUE
                                THEN [f.columns[i] EXCEPT !.isPrimaryKey = FALSE]
                              ELSE f.columns[i]],
             !.error = ""]

\* The checks validateForm makes of one column, in their order.
ColumnError(column) ==
  IF Trim(column.name) = << >> THEN "All columns must have names"
  ELSE IF ~MatchesIdentifierPattern(column.name)
    THEN "Column names must start with a letter or underscore and contain only letters, numbers, and underscores"
  ELSE IF /\ column.type \in {"VARCHAR", "CHAR"}
          /\ (column.defaultValue = << >> \/ NotAboveZero(parseInt(column.defaultValue)))
    THEN "VARCHAR and CHAR columns must specify a length in the default value field"
  ELSE ""

\* validateForm: the error it sets, the empty text when it returns true.
validateForm(f) ==
  LET bad == {i \in 1..Len(f.columns) : ColumnError(f.columns[i]) # ""}
  IN IF Trim(f.tableName) = << >> THEN "Table name is required"
     ELSE IF ~MatchesIdentifierPattern(f.tableName)
       THEN "Table name must start with a letter or underscore and contain only letters, numbers, and underscores"
     ELSE IF Len(f.columns) < 2 THEN "Table must have at least 2 columns"
     ELSE IF \A i \in 1..Len(f.columns) : ~f.columns[i].isPrimaryKey
       THEN "Table must have a primary key column"
     ELSE IF bad # {}
       THEN ColumnError(f.columns[CHOOSE i \in bad : \A j \in bad : i <= j])
     ELSE ""

\* handleSubmit up to its fetch.
handleSubmit(f) ==
  IF validateForm(f) # "" THEN [f EXCEPT !.error = validateForm(f)]
  ELSE [f EXCEPT !.isSubmitting = TRUE, !.error = "",
                 !.sent = RequestBody(Str(f.tableName), Arr(f.columns))]

\* handleSubmit after its fetch: navigate away on success, else the error.
handleResponse(f, outcome) ==
  CASE outcome = "ok" -> [f EXCEPT !.open = FALSE, !.isSubmitting = FALSE, !.sent = NoRequest]
    [] outcome = "network" ->
         [f EXCEPT !.error = "Network error occurred", !.isSubmitting = FALSE,
                   !.sent = NoRequest]
    [] OTHER -> [f EXCEPT !.error = outcome, !.isSubmitting = FALSE, !.sent = NoRequest]

\* ---------------------------------------------------------------- startup
PortSpan == 3
DefaultPort == 3000

\* The ports next to the default one, each free or held by another process.
Ports == DefaultPort..(DefaultPort + PortSpan)

\* process.env.PORT: unset, or the decimal text of a port.
EnvPorts == {<< >>, <<"3", "0", "0", "1">>, <<"8", "0">>}

\* const PORT = process.env.PORT || 3000, as the number Number(PORT) gives
PORT(env) == IF env = << >> THEN DefaultPort ELSE DecimalValue(env)

\* The server socket: the port of the listen call under way, the error
\* code it emitted, and the ports other processes hold.
Startup(phase, port, attempt, code, busy) ==
  [phase |-> phase, PORT |-> port, port |-> attempt, code |-> code, busy |-> busy]

NoStartup == Startup("off", 0, 0, "", {})

\* bind(2): a port below 1024 needs privileges, a held port is in use.
BindResult(port, busy) ==
  IF port < 1024 THEN "EACCES"
  ELSE IF port \in busy THEN "EADDRINUSE"
  ELSE ""

\* server.listen(port): 'listening' or 'error' is emitted.
listen(st) ==
  LET code == BindResult(st.port, st.busy)
  IN IF code = "" THEN [st EXCEPT !.phase = "listening"]
     ELSE [st EXCEPT !.phase = "error", !.code = code]

\* .on('error', (err) => ...)
onError(st) ==
  IF st.code = "EADDRINUSE"
    THEN LET nextPort == st.PORT + 1
         IN [st EXCEPT !.phase = "binding", !.port = nextPort, !.code = ""]
  ELSE [st EXCEPT !.phase = "failed"]

\* ------------------------------------------------- deleteRow, step by step
\* A deleteRow(t, id) call between its awaits: what its capability check
\* answered, the database each of its two statements ran on, and what the
\* call came to.
DeleteCall(phase, t, id, soft, checkedOn, ranOn, result) ==
  [phase |-> phase, table |-> t, id |-> id, soft |-> soft,
   checkedOn |-> checkedOn, ranOn |-> ranOn, result |-> result]

NoResult == Returned(Undefined, [t \in {} |-> EmptyTable(<< >>)], << >>)
NoRace == DeleteCall("off", "", 0, FALSE, [t \in {} |-> EmptyTable(<< >>)],
                     [t \in {} |-> EmptyTable(<< >>)], NoResult)

\* const schemaResult = await pool.query(schemaQuery, [tableName]);
\* schemaResult.rows.length > 0
deleteRowCheck(db, other, t) == Len(Query(db, other, IsDeletedCheck(t)).rows) > 0

\* The statement of the branch the check chose, and return result.rowCount > 0.
deleteRowStatement(db, other, t, id, soft) ==
  IF soft THEN RunCounted(db, other, SoftDeleteStatement(t, id), <<IsDeletedCheck(t)>>)
  ELSE RunCounted(db, other, DeleteStatement(t, id), <<IsDeletedCheck(t)>>)

\* -------------------------------------------------------------- data grid
\* The texts of the text values of the rows, as characters.
KnownTexts ==
  {<<"t", "r", "u", "e">>, <<"f", "a", "l", "s", "e">>, << >>}
    \cup {<<"u", "s", "e", "r", "_", "0", "0", DigitChars[i + 1]>> : i \in 1..9}

\* The digits of a timestamp as JSON carries it.
TimeChars == <<"2", "0", "0", "1", "-", "0", "1", "-", "0", "1">>

RECURSIVE NumberChars(_)
NumberChars(n) ==
  IF n < 10 THEN <<DigitChars[n + 1]>>
  ELSE NumberChars(n \div 10) \o <<DigitChars[(n % 10) + 1]>>

\* value.toString()
toString(v) ==
  CASE v.k = "int" -> NumberChars(v.n)
    [] v.k = "text" -> CHOOSE chars \in KnownTexts : Text(chars) = v.s
    [] v.k = "time" -> TimeChars
    [] OTHER -> <<"n", "u", "l", "l">>

\* chars.toLowerCase()
toLowerCase(chars) == [i \in 1..Len(chars) |-> FoldChar(chars[i])]

\* chars.includes(part)
includes(chars, part) ==
  \E i \in 0..(Len(chars) - Len(part)) : SubSeq(chars, i + 1, i + Len(part)) = part

\* value && ..: null, 0 and '' are falsy.
TruthyValue(v) ==
  /\ v.k # "null"
  /\ v.k = "int" => v.n # 0
  /\ v.k = "text" => v.s # ""

\* String(row['is_deleted']) === 'true'
ReadsDeleted(row) == "is_deleted" \in DOMAIN row /\ row["is_deleted"] = TextV("true")

\* tableSchema.some(col => col.column_name === 'is_deleted')
hasIsDeletedColumn(tableSchema) ==
  \E i \in 1..Len(tableSchema) : tableSchema[i].column_name = "is_deleted"

\* The filter effect: the rows setFilteredData receives.
filterRows(tableData, tableSchema, searchTerm, hideDeleted) ==
  LET workingData ==
        IF hideDeleted /\ hasIsDeletedColumn(tableSchema)
          THEN SelectSeq(tableData, LAMBDA row : ~ReadsDeleted(row))
        ELSE tableData
      lowered == toLowerCase(searchTerm)
  IN IF Trim(searchTerm) = << >> THEN workingData
     ELSE SelectSeq(workingData,
                    LAMBDA row : \E c \in DOMAIN row :
                                   /\ TruthyValue(row[c])
                                   /\ includes(toLowerCase(toString(row[c])), lowered))

\* The new-row template fetchTableSchema builds from a schema.
initialRow(tableSchema) ==
  LET names == {tableSchema[i].column_name : i \in 1..Len(tableSchema)} \ {"id", "created_at"}
  IN [c \in names |->
        IF c = "user_id" THEN IntV(1)
        ELSE IF c = "is_deleted" THEN TextV("false")
        ELSE IF c \in {"start_index", "end_index", "x", "y"} THEN IntV(0)
        ELSE TextV("")]

\* A request of the grid with what decided it: the displayed row the user
\* acted on (shown), the database before, whether confirm() was accepted.
GridRequest(handler, method, t, id, body, shown, ok) ==
  [handler |-> handler, method |-> method, table |-> t, id |-> id, body |-> body,
   shown |-> shown, ok |-> ok]

NoGridRequest == GridRequest("none", "", "", 0, << >>, 0, FALSE)

\* The state hooks of SimpleCrudApp before the component has mounted;
\* editingRow 0 is null, rows are counted from 1. pending holds the fetches
\* whose responses have not arrived.
NoGrid ==
  [open |-> FALSE, selectedTable |-> "", tableData |-> << >>, tableSchema |-> << >>,
   loading |-> FALSE, editingRow |-> 0, newRow |-> NoRow, searchTerm |-> << >>,
   filteredData |-> << >>, hideDeleted |-> FALSE, pending |-> {}, sent |-> NoGridRequest]

\* The render after a state change: the filter effect has run.
filterEffect(g) ==
  [g EXCEPT !.filteredData = filterRows(g.tableData, g.tableSchema, g.searchTerm, g.hideDeleted)]

\* What a handler comes to: the hooks and the database afterwards.
Handled(g, db) == [grid |-> filterEffect(g), tables |-> db]

\* JSON.stringify(row): the entries in the order of the columns.
ColumnOrder == <<"id", "unique_user_string", "is_deleted", "created_at">>
JsonBody(row) ==
  LET keys == SelectSeq(ColumnOrder, LAMBDA c : c \in DOMAIN row)
  IN [i \in 1..Len(keys) |-> Entry(keys[i], row[keys[i]])]

\* The id of the row displayed at an index; 0 when none is displayed there.
ShownId(g, rowIndex) ==
  IF rowIndex \in 1..Len(g.filteredData) THEN g.filteredData[rowIndex]["id"].n ELSE 0

\* fetch(..).ok
Ok(resp) == resp.status = 200

\* handleSave(rowIndex); rowData.id of a missing row throws inside the try.
handleSave(g, db, other, rowIndex) ==
  IF rowIndex \notin 1..Len(g.tableData) THEN Handled(g, db)
  ELSE LET rowData == g.tableData[rowIndex]
           r == updateRow(db, other, g.selectedTable, rowData["id"].n, JsonBody(rowData))
           ok == Ok(PutResponse(r))
       IN Handled([g EXCEPT !.editingRow = IF ok THEN 0 ELSE @,
                            !.sent = GridRequest("handleSave", "PUT", g.selectedTable,
                                                 rowData["id"].n, JsonBody(rowData),
                                                 ShownId(g, rowIndex), ok)],
                  r.tables)

\* handleEdit(rowIndex)
handleEdit(g, db, rowIndex) == Handled([g EXCEPT !.editingRow = rowIndex], db)

\* handleCancel(): fetchTableData(selectedTable) is sent.
handleCancel(g, db) ==
  Handled([g EXCEPT !.editingRow = 0, !.loading = TRUE,
                    !.pending = @ \cup {[kind |-> "data", table |-> g.selectedTable]}], db)

\* handleRowClick(rowIndex)
handleRowClick(g, db, other, rowIndex) ==
  IF g.editingRow = 0 THEN Handled([g EXCEPT !.editingRow = rowIndex], db)
  ELSE IF g.editingRow = rowIndex THEN Handled(g, db)
  ELSE LET saved == handleSave(g, db, other, g.editingRow)
       IN IF saved.grid.sent.ok /\ g.editingRow \in 1..Len(g.tableData)
            THEN Handled([saved.grid EXCEPT !.editingRow = rowIndex], saved.tables)
          ELSE saved

\* handleInputChange(rowIndex, field, value)
handleInputChange(g, db, rowIndex, field, value) ==
  Handled([g EXCEPT !.tableData[rowIndex] =
                      [c \in DOMAIN @ \cup {field} |-> IF c = field THEN value ELSE @[c]],
                    !.sent = GridRequest("handleInputChange", "", g.selectedTable,
                                         g.tableData[rowIndex]["id"].n,
                                         <<Entry(field, value)>>, ShownId(g, rowIndex), FALSE)],
          db)

\* A handleDelete that asks the server to delete the row for good.
handleDelete_HardDelete(g, db, other, row) ==
  IF ~hasIsDeletedColumn(g.tableSchema) THEN Handled(g, db)
  ELSE LET r == deleteRow(db, other, g.selectedTable, row["id"].n, TRUE)
           ok == Ok(HardDeleteResponse(r))
       IN Handled([g EXCEPT !.tableData =
                              IF ok THEN SelectSeq(@, LAMBDA o : o["id"] # row["id"]) ELSE @,
                            !.sent = GridRequest("handleDelete", "DELETE", g.selectedTable,
                                                 row["id"].n, << >>, row["id"].n, ok)],
                  r.tables)

\* handleDelete(row)
handleDelete(g, db, other, row) ==
  IF ~hasIsDeletedColumn(g.tableSchema) THEN Handled(g, db)
  ELSE LET currentlyDeleted == ReadsDeleted(row)
           flag == TextV(IF currentlyDeleted THEN "false" ELSE "true")
           body == <<Entry("is_deleted", flag)>>
           r == updateRow(db, other, g.selectedTable, row["id"].n, body)
           ok == Ok(PutResponse(r))
       IN Handled([g EXCEPT !.tableData =
                              IF ok THEN [i \in 1..Len(@) |->
                                            IF @[i]["id"] = row["id"]
                                              THEN [c \in DOMAIN @[i] \cup {"is_deleted"} |->
                                                      IF c = "is_deleted" THEN flag ELSE @[i][c]]
                                            ELSE @[i]]
                              ELSE @,
                            !.sent = GridRequest("handleDelete", "PUT", g.selectedTable,
                                                 row["id"].n, body, row["id"].n, ok)],
                  r.tables)

\* handleFullyDelete(id); confirmed is what confirm() returned.
handleFullyDelete(g, db, other, id, confirmed) ==
  IF ~confirmed THEN Handled(g, db)
  ELSE LET r == deleteRow(db, other, g.selectedTable, id, TRUE)
           ok == Ok(HardDeleteResponse(r))
       IN Handled([g EXCEPT !.tableData =
                              IF ok THEN SelectSeq(@, LAMBDA o : o["id"] # IntV(id)) ELSE @,
                            !.sent = GridRequest("handleFullyDelete", "DELETE", g.selectedTable,
                                                 id, << >>, id, ok)],
                  r.tables)

\* setSelectedTable(t) and the effect on [selectedTable]: both fetches are sent.
selectTable(g, db, t) ==
  Handled([g EXCEPT !.selectedTable = t,
                    !.loading = (t # "" /\ t # g.selectedTable) \/ @,
                    !.pending = IF t = "" \/ t = g.selectedTable THEN @
                                ELSE @ \cup {[kind |-> "data", table |-> t],
                                             [kind |-> "schema", table |-> t]}], db)

\* fetchTableData(tableName) after its await: setTableData, setFilteredData
fetchTableData(g, db, tableName) ==
  Handled([g EXCEPT !.tableData = getTableData(db, tableName).rows, !.loading = FALSE,
                    !.pending = @ \ {[kind |-> "data", table |-> tableName]}], db)

\* fetchTableSchema(tableName) after its await: setTableSchema, setNewRow
fetchTableSchema(g, db, tableName) ==
  Handled([g EXCEPT !.tableSchema = getTableSchema(db, tableName),
                    !.newRow = initialRow(getTableSchema(db, tableName)),
                    !.pending = @ \ {[kind |-> "schema", table |-> tableName]}], db)


\* ----------------------------------------------------------------- system
\* The databases the server may be started on, as <<public tables, columns
\* of other schemas>>: one holding the users table of the sample schema,
\* the same with a users table that has an is_deleted column in another
\* schema, and one holding a table made with the table designer.
Databases ==
  { <<[t \in {"users"} |-> EmptyTable(UsersColumns)], {}>>,
    <<[t \in {"users"} |-> EmptyTable(UsersColumns)], {<<"users", "is_deleted">>}>>,
    <<[t \in {"notes"} |-> EmptyTable(NotesColumns)], {}>> }

Init ==
  /\ \E d \in Databases : tables = d[1] /\ otherSchemaCols = d[2]
  /\ last = Idle
  /\ roundTrip = NoRoundTrip
  /\ render = NoRender
  /\ create = NoCreate
  /\ form = NoForm
  /\ startup = NoStartup
  /\ race = NoRace
  /\ grid = NoGrid

\* PUT /api/tables/:tableName/rows/:id
PutRow(t, id, data) ==
  /\ last.op = "none"
  /\ LET r == updateRow(tables, otherSchemaCols, t, id, data) IN
       /\ tables' = r.tables
       /\ last' = Exchange("update", t, id, data, PutResponse(r), << >>, r.stmts, tables)
       /\ roundTrip' = IF roundTrip.open /\ roundTrip.table = t /\ roundTrip.id = id
                          /\ StripServerKeys(data) = Undelete
                        THEN [roundTrip EXCEPT !.open = FALSE, !.closed = TRUE]
                        ELSE NoRoundTrip
  /\ UNCHANGED <<otherSchemaCols, render, create, form, hostVars>>

\* POST /api/tables/:tableName/rows
PostRow(t, data) ==
  /\ last.op = "none"
  /\ t \in DOMAIN tables => (HasKey(data, "id") \/ tables[t].seq < MaxId)
  /\ LET r == insertRow(tables, otherSchemaCols, t, data) IN
       /\ tables' = r.tables
       /\ last' = Exchange("insert", t, 0, data, PostResponse(r), << >>, r.stmts, tables)
  /\ roundTrip' = NoRoundTrip
  /\ UNCHANGED <<otherSchemaCols, render, create, form, hostVars>>

\* DELETE /api/tables/:tableName/rows/:id
DeleteRowSoft(t, id) ==
  /\ last.op = "none"
  /\ LET r == deleteRow(tables, otherSchemaCols, t, id, FALSE) IN
       /\ tables' = r.tables
       /\ last' = Exchange("delete", t, id, << >>, DeleteResponse(r), << >>, r.stmts, tables)
       /\ roundTrip' = IF IsLiveRow(tables, t, id) /\ ~r.threw /\ r.value.flag
                        THEN [open |-> TRUE, closed |-> FALSE, table |-> t, id |-> id,
                              before |-> getTableData(tables, t).rows]
                        ELSE NoRoundTrip
  /\ UNCHANGED <<otherSchemaCols, render, create, form, hostVars>>

\* DELETE /api/tables/:tableName/rows/:id/hard-delete
DeleteRowHard(t, id) ==
  /\ last.op = "none"
  /\ LET r == deleteRow(tables, otherSchemaCols, t, id, TRUE) IN
       /\ tables' = r.tables
       /\ last' = Exchange("hardDelete", t, id, << >>, HardDeleteResponse(r), << >>,
                           r.stmts, tables)
  /\ roundTrip' = NoRoundTrip
  /\ UNCHANGED <<otherSchemaCols, render, create, form, hostVars>>

\* GET /api/tables/:tableName/data
GetData(t) ==
  /\ last.op = "none"
  /\ LET r == getTableData(tables, t) IN
       last' = Exchange("list", t, 0, << >>, DataResponse(r), r.rows, << >>, tables)
  /\ roundTrip' = NoRoundTrip
  /\ UNCHANGED <<tables, otherSchemaCols, render, create, form, hostVars>>

\* The client takes the response (await fetch / response.json()), after
\* which it can send its next request.
Receive ==
  /\ last.op # "none"
  /\ last' = Idle
  /\ roundTrip' = IF roundTrip.closed THEN NoRoundTrip ELSE roundTrip
  /\ UNCHANGED <<tables, otherSchemaCols, render, create, form, hostVars>>

Put == \E t \in TableNames, id \in 1..MaxId, data \in Payloads : PutRow(t, id, data)
Post == \E t \in TableNames, data \in Payloads : PostRow(t, data)
DeleteSoft == \E t \in TableNames, id \in 1..MaxId : DeleteRowSoft(t, id)
DeleteHard == \E t \in TableNames, id \in 1..MaxId : DeleteRowHard(t, id)
List == \E t \in TableNames : GetData(t)

Next == Put \/ Post \/ DeleteSoft \/ DeleteHard \/ List \/ Receive

Spec == Init /\ [][Next]_vars

\* ---------------------------------------------- column definitions alone
\* The values of the defaultValue field: empty, a length, a precision, a
\* boolean literal and a word.
DefaultValues ==
  {<< >>, <<"1", "0", "0">>, <<"1", "0", ",", "2">>, <<"t", "r", "u", "e">>, <<"a", "b", "c">>}

ColumnSpecs ==
  {ColumnSpec(<<"n", "a", "m", "e">>, ty, n, pk, dv, ai) :
     ty \in dataTypes, n \in BOOLEAN, pk \in BOOLEAN, dv \in DefaultValues, ai \in BOOLEAN}

InitRender ==
  /\ \E col \in ColumnSpecs : render = [done |-> FALSE, col |-> col, def |-> NoDefinition]
  /\ tables = [t \in {} |-> EmptyTable(<< >>)]
  /\ otherSchemaCols = {}
  /\ last = Idle
  /\ roundTrip = NoRoundTrip
  /\ create = NoCreate
  /\ form = NoForm
  /\ startup = NoStartup
  /\ race = NoRace
  /\ grid = NoGrid

\* columns.map(col => ...) applied to one column
RenderColumn ==
  /\ ~render.done
  /\ render' = [render EXCEPT !.done = TRUE, !.def = columnDefinition(render.col)]
  /\ UNCHANGED <<tables, otherSchemaCols, last, roundTrip, create, form, hostVars>>

NextRender == RenderColumn

SpecRender == InitRender /\ [][NextRender]_vars

\* ------------------------------------------------------- table requests
\* The names a create-table request may carry: notes, Notes, 1abc.
NameNotes == <<"n", "o", "t", "e", "s">>
NameNotesCapital == <<"N", "o", "t", "e", "s">>
NameDigitFirst == <<"1", "a", "b", "c">>

TableNameInputs == {Absent, Str(<< >>), Str(NameNotes), Str(NameNotesCapital), Str(NameDigitFirst)}

\* The columns a request may carry: the designer's id column, a sized
\* VARCHAR, a TEXT column with a capital, a declared created_at, a name with
\* a dollar sign, a name that starts with a digit, a NUMERIC with precision.
ColumnInputs ==
  { ColumnSpec(<<"i", "d">>, "SERIAL", FALSE, TRUE, << >>, TRUE),
    ColumnSpec(<<"n", "a", "m", "e">>, "VARCHAR", TRUE, FALSE, <<"1", "0", "0">>, FALSE),
    ColumnSpec(<<"N", "a", "m", "e">>, "TEXT", TRUE, FALSE, << >>, FALSE),
    ColumnSpec(<<"c", "r", "e", "a", "t", "e", "d", "_", "a", "t">>, "TIMESTAMP",
               TRUE, FALSE, << >>, FALSE),
    ColumnSpec(<<"a", "$">>, "TEXT", TRUE, FALSE, << >>, FALSE),
    ColumnSpec(<<"1", "a">>, "TEXT", TRUE, FALSE, << >>, FALSE),
    ColumnSpec(<<"p", "r", "i", "c", "e">>, "NUMERIC", TRUE, FALSE, <<"1", "0", ",", "2">>, FALSE) }

ColumnsInputs ==
  {Absent, Str(<<"i", "d">>), Arr(<< >>)}
    \cup {Arr(<<c>>) : c \in ColumnInputs}
    \cup {Arr(<<c, d>>) : c \in ColumnInputs, d \in ColumnInputs}

InitCreate ==
  /\ tables = [t \in {} |-> EmptyTable(<< >>)]
  /\ otherSchemaCols \in {{}, {<<"notes", "created_at">>}}
  /\ create = NoCreate
  /\ last = Idle
  /\ roundTrip = NoRoundTrip
  /\ render = NoRender
  /\ form = NoForm
  /\ startup = NoStartup
  /\ race = NoRace
  /\ grid = NoGrid

\* POST /api/tables/create
PostCreate(tableName, columns) ==
  /\ create.op = "none"
  /\ LET r == CreateCall(tables, otherSchemaCols, tableName, columns)
     IN /\ tables' = r.tables
        /\ create' = TableExchange("create", tableName, columns,
                                   CreateResponse(tableName, columns, r), r.stmts, tables, << >>,
                                   IF CreateResponse(tableName, columns, r).status = 200
                                     THEN [tableName |-> tableName, columns |-> columns]
                                   ELSE create.made)
  /\ UNCHANGED <<otherSchemaCols, last, roundTrip, render, form, hostVars>>

\* GET /api/tables/:tableName/schema
GetSchema(tableName) ==
  /\ create.op = "none"
  /\ create' = TableExchange("schema", Str(tableName), Absent,
                             Response(200, MessageBody, "", FALSE, ""), << >>, tables,
                             getTableSchema(tables, Text(tableName)), create.made)
  /\ UNCHANGED <<tables, otherSchemaCols, last, roundTrip, render, form, hostVars>>

\* DELETE /api/tables/:tableName
DeleteTable(tableName) ==
  /\ create.op = "none"
  /\ LET r == deleteTable(tables, tableName)
     IN /\ tables' = r.tables
        /\ create' = TableExchange("dropTable", Str(tableName), Absent, DeleteTableResponse(r),
                                   r.stmts, tables, << >>,
                                   IF ~r.threw /\ Fold(create.made.tableName.chars) = Fold(tableName)
                                     THEN NoneMade
                                   ELSE create.made)
  /\ UNCHANGED <<otherSchemaCols, last, roundTrip, render, form, hostVars>>

\* The client takes the response.
ReceiveCreate ==
  /\ create.op # "none"
  /\ create' = [NoCreate EXCEPT !.made = create.made]
  /\ UNCHANGED <<tables, otherSchemaCols, last, roundTrip, render, form, hostVars>>

Create == \E tableName \in TableNameInputs, columns \in ColumnsInputs : PostCreate(tableName, columns)
Describe == \E tableName \in {NameNotes, NameNotesCapital} : GetSchema(tableName)

Drop == \E tableName \in {NameNotes, NameNotesCapital, NameDigitFirst} : DeleteTable(tableName)

NextCreate == Create \/ Describe \/ Drop \/ ReceiveCreate

SpecCreate == InitCreate /\ [][NextCreate]_vars

\* ------------------------------------------------------- designer alone
\* The longest column list the designer is taken to.
MaxColumns == 2

\* What is typed into a name field, and into a default-value field.
NameInputs == {<< >>, <<"a">>, <<"1">>}
LengthInputs == {<< >>, <<"5">>, <<"0">>, <<"x">>}
TypeInputs == {"SERIAL", "TEXT", "VARCHAR"}

InitDesigner ==
  /\ form = Form(TRUE, << >>, InitialColumns, "", FALSE, NoRequest)
  /\ startup = NoStartup
  /\ race = NoRace
  /\ grid = NoGrid
  /\ tables = [t \in {} |-> EmptyTable(<< >>)]
  /\ otherSchemaCols = {}
  /\ last = Idle
  /\ roundTrip = NoRoundTrip
  /\ render = NoRender
  /\ create = NoCreate

Editing == form.open /\ ~form.isSubmitting

\* onChange of the table name input
SetTableName ==
  /\ Editing
  /\ \E name \in NameInputs : form' = [form EXCEPT !.tableName = name]
  /\ UNCHANGED <<tables, otherSchemaCols, last, roundTrip, render, create, hostVars>>

\* onClick of Add Column
AddColumn ==
  /\ Editing
  /\ Len(form.columns) < MaxColumns
  /\ form' = addColumn(form)
  /\ UNCHANGED <<tables, otherSchemaCols, last, roundTrip, render, create, hostVars>>

\* onClick of Remove, disabled on the primary-key column
RemoveColumn ==
  /\ Editing
  /\ \E i \in 1..Len(form.columns) :
       /\ ~form.columns[i].isPrimaryKey
       /\ form' = removeColumn(form, i)
  /\ UNCHANGED <<tables, otherSchemaCols, last, roundTrip, render, create, hostVars>>

\* onChange of the inputs of a column row; the nullable box is disabled on
\* the primary-key column, the auto-increment box on types other than
\* SERIAL, INTEGER and BIGINT, the default-value input on SERIAL and
\* auto-increment columns.
UpdateColumn ==
  /\ Editing
  /\ \E i \in 1..Len(form.columns) :
       \/ \E v \in NameInputs : form' = updateColumn(form, i, "name", v)
       \/ \E v \in TypeInputs : form' = updateColumn(form, i, "type", v)
       \/ /\ ~form.columns[i].isPrimaryKey
          /\ form' = updateColumn(form, i, "isNullable", ~form.columns[i].isNullable)
       \/ form' = updateColumn(form, i, "isPrimaryKey", ~form.columns[i].isPrimaryKey)
       \/ /\ form.columns[i].type \in {"SERIAL", "INTEGER", "BIGINT"}
          /\ form' = updateColumn(form, i, "isAutoIncrement", ~form.columns[i].isAutoIncrement)
       \/ /\ form.columns[i].type # "SERIAL" /\ ~form.columns[i].isAutoIncrement
          /\ \E v \in LengthInputs : form' = updateColumn(form, i, "defaultValue", v)
  /\ UNCHANGED <<tables, otherSchemaCols, last, roundTrip, render, create, hostVars>>

\* onSubmit of the form; the submit button is disabled while submitting
Submit ==
  /\ Editing
  /\ form' = handleSubmit(form)
  /\ UNCHANGED <<tables, otherSchemaCols, last, roundTrip, render, create, hostVars>>

\* The fetch settles: a 2xx response, an error response with its error
\* text, or a network failure.
SubmitSettles ==
  /\ form.open /\ form.isSubmitting
  /\ \E outcome \in {"ok", "network", "Invalid request data", "Failed to create table"} :
       form' = handleResponse(form, outcome)
  /\ UNCHANGED <<tables, otherSchemaCols, last, roundTrip, render, create, hostVars>>

NextDesigner ==
  SetTableName \/ AddColumn \/ RemoveColumn \/ UpdateColumn \/ Submit \/ SubmitSettles

SpecDesigner == InitDesigner /\ [][NextDesigner]_vars

\* ------------------------------------------------- system: server startup
\* app.listen(PORT) has been called.
InitStartup ==
  /\ \E env \in EnvPorts, busy \in SUBSET Ports :
       startup = Startup("binding", PORT(env), PORT(env), "", busy)
  /\ race = NoRace
  /\ grid = NoGrid
  /\ tables = [t \in {} |-> EmptyTable(<< >>)]
  /\ otherSchemaCols = {}
  /\ last = Idle
  /\ roundTrip = NoRoundTrip
  /\ render = NoRender
  /\ create = NoCreate
  /\ form = NoForm

\* The listen call under way settles.
Listen ==
  /\ startup.phase = "binding"
  /\ startup' = listen(startup)
  /\ UNCHANGED <<tables, otherSchemaCols, last, roundTrip, render, create, form, race, grid>>

\* The 'error' listener runs.
OnError ==
  /\ startup.phase = "error"
  /\ startup' = onError(startup)
  /\ UNCHANGED <<tables, otherSchemaCols, last, roundTrip, render, create, form, race, grid>>

NextStartup == Listen \/ OnError

\* The event loop runs every listener whose event was emitted.
SpecStartup ==
  InitStartup /\ [][NextStartup]_vars /\ WF_vars(Listen) /\ WF_vars(OnError)

\* ------------------------------------- system: deleteRow among other requests
\* The column lists of the create-table requests that run beside a delete.
FlaggedColumns ==
  <<ColumnSpec(<<"i", "d">>, "SERIAL", FALSE, TRUE, << >>, TRUE),
    ColumnSpec(<<"i", "s", "_", "d", "e", "l", "e", "t", "e", "d">>, "TEXT", TRUE, FALSE,
               <<"f", "a", "l", "s", "e">>, FALSE)>>
PlainColumns ==
  <<ColumnSpec(<<"i", "d">>, "SERIAL", FALSE, TRUE, << >>, TRUE),
    ColumnSpec(<<"n", "a", "m", "e">>, "TEXT", TRUE, FALSE, << >>, FALSE)>>

InitRace ==
  /\ tables = [t \in {} |-> EmptyTable(<< >>)]
  /\ otherSchemaCols = {}
  /\ race = [NoRace EXCEPT !.phase = "idle"]
  /\ startup = NoStartup
  /\ grid = NoGrid
  /\ last = Idle
  /\ roundTrip = NoRoundTrip
  /\ render = NoRender
  /\ create = NoCreate
  /\ form = NoForm

\* DELETE /api/tables/:tableName/rows/:id, up to the first await of deleteRow
DeleteChecks(t, id) ==
  /\ race.phase = "idle"
  /\ race' = DeleteCall("checked", t, id, deleteRowCheck(tables, otherSchemaCols, t),
                        tables, tables, NoResult)
  /\ UNCHANGED <<tables, otherSchemaCols, last, roundTrip, render, create, form, startup, grid>>

\* deleteRow resumes: the second statement runs and the route answers.
DeleteRuns ==
  /\ race.phase = "checked"
  /\ LET r == deleteRowStatement(tables, otherSchemaCols, race.table, race.id, race.soft)
     IN /\ tables' = r.tables
        /\ race' = [race EXCEPT !.phase = "done", !.ranOn = tables, !.result = r]
  /\ UNCHANGED <<otherSchemaCols, last, roundTrip, render, create, form, startup, grid>>

\* The client takes the response of the delete.
DeleteAnswered ==
  /\ race.phase = "done"
  /\ race' = [NoRace EXCEPT !.phase = "idle"]
  /\ UNCHANGED <<tables, otherSchemaCols, last, roundTrip, render, create, form, startup, grid>>

\* POST /api/tables/create of another client
OtherCreates(columns) ==
  /\ race.phase \in {"idle", "checked"}
  /\ tables' = createTable(tables, otherSchemaCols, NameNotes, columns).tables
  /\ tables' # tables
  /\ UNCHANGED <<otherSchemaCols, last, roundTrip, render, create, form, hostVars>>

\* DELETE /api/tables/:tableName of another client
OtherDrops ==
  /\ race.phase \in {"idle", "checked"}
  /\ tables' = deleteTable(tables, NameNotes).tables
  /\ tables' # tables
  /\ UNCHANGED <<otherSchemaCols, last, roundTrip, render, create, form, hostVars>>

\* POST /api/tables/:tableName/rows of another client
OtherInserts(id) ==
  /\ race.phase \in {"idle", "checked"}
  /\ tables' = insertRow(tables, otherSchemaCols, "notes", <<Entry("id", IntV(id))>>).tables
  /\ tables' # tables
  /\ UNCHANGED <<otherSchemaCols, last, roundTrip, render, create, form, hostVars>>

DeleteStarts == \E id \in 1..MaxId : DeleteChecks("notes", id)
Creates == \E columns \in {FlaggedColumns, PlainColumns} : OtherCreates(columns)
Inserts == \E id \in 1..MaxId : OtherInserts(id)

NextRace == DeleteStarts \/ DeleteRuns \/ DeleteAnswered \/ Creates \/ OtherDrops \/ Inserts

SpecRace == InitRace /\ [][NextRace]_vars

\* ------------------------------------------------------- system: data grid
\* The database the grid is opened on: users and notes with a row for each
\* id, the first note soft-deleted.
GridTables ==
  [t \in {"users", "notes"} |->
     IF t = "users"
       THEN [cols |-> UsersColumns, seq |-> MaxId,
             rows |-> {[c \in {"id", "unique_user_string"} |->
                          IF c = "id" THEN IntV(i)
                          ELSE TextV("user_00" \o DigitChars[i + 1])] : i \in 1..MaxId}]
     ELSE [cols |-> NotesColumns, seq |-> MaxId,
           rows |-> {[c \in {"id", "is_deleted", "created_at"} |->
                        IF c = "id" THEN IntV(i)
                        ELSE IF c = "created_at" THEN ServerTime
                        ELSE TextV(IF i = 1 THEN "true" ELSE "false")] : i \in 1..MaxId}]]

\* What the user types into the search box.
SearchTerms == {<< >>, <<"T", "R", "U", "E">>, <<"u", "s", "e", "r", "_", "0", "0", "2">>}

\* What the user puts into the cell of a column.
CellInputs(field) ==
  IF field = "is_deleted" THEN {TextV("true"), TextV("false")}
  ELSE IF field = "unique_user_string" THEN {TextV("user_001"), TextV("user_002")}
  ELSE {}

\* The component has mounted; no table is selected.
InitGrid ==
  /\ tables = GridTables
  /\ otherSchemaCols = {}
  /\ grid = [NoGrid EXCEPT !.open = TRUE]
  /\ startup = NoStartup
  /\ race = NoRace
  /\ last = Idle
  /\ roundTrip = NoRoundTrip
  /\ render = NoRender
  /\ create = NoCreate
  /\ form = NoForm

\* A handler has run: the hooks and the database it leaves.
Handle(outcome) ==
  /\ grid' = outcome.grid
  /\ tables' = outcome.tables
  /\ UNCHANGED <<otherSchemaCols, last, roundTrip, render, create, form, startup, race>>

\* onChange of the table select
SelectTable ==
  \E t \in DOMAIN tables :
    /\ t # grid.selectedTable
    /\ Handle(selectTable(grid, tables, t))

\* The response of a data fetch arrives.
DataArrives ==
  \E f \in grid.pending :
    /\ f.kind = "data"
    /\ Handle(fetchTableData(grid, tables, f.table))

\* The response of a schema fetch arrives.
SchemaArrives ==
  \E f \in grid.pending :
    /\ f.kind = "schema"
    /\ Handle(fetchTableSchema(grid, tables, f.table))

\* onChange of the search box
SetSearchTerm ==
  \E term \in SearchTerms :
    /\ grid.selectedTable # ""
    /\ Handle(Handled([grid EXCEPT !.searchTerm = term], tables))

\* onChange of the hide-deleted checkbox, shown when the schema has is_deleted
SetHideDeleted ==
  /\ grid.selectedTable # ""
  /\ hasIsDeletedColumn(grid.tableSchema)
  /\ Handle(Handled([grid EXCEPT !.hideDeleted = ~@], tables))

\* The rows are rendered: selectedTable && !loading && filteredData.length > 0
RowsShown == grid.selectedTable # "" /\ ~grid.loading

\* onClick of a displayed row
RowClick ==
  \E i \in 1..Len(grid.filteredData) :
    /\ RowsShown
    /\ Handle(handleRowClick(grid, tables, otherSchemaCols, i))

\* onClick of Edit, shown on the rows that are not being edited
Edit ==
  \E i \in 1..Len(grid.filteredData) :
    /\ RowsShown
    /\ grid.editingRow # i
    /\ Handle(handleEdit(grid, tables, i))

\* onChange of an input of the row being edited
InputChange ==
  \E i \in 1..Len(grid.filteredData), c \in 1..Len(grid.tableSchema) :
    /\ RowsShown
    /\ grid.editingRow = i
    /\ grid.tableSchema[c].column_name \notin {"id", "created_at"}
    /\ \E value \in CellInputs(grid.tableSchema[c].column_name) :
         Handle(handleInputChange(grid, tables, i, grid.tableSchema[c].column_name, value))

\* onClick of Save, or Enter in an input, on the row being edited
Save ==
  \E i \in 1..Len(grid.filteredData) :
    /\ RowsShown
    /\ grid.editingRow = i
    /\ Handle(handleSave(grid, tables, otherSchemaCols, i))

\* onClick of Cancel on the row being edited
Cancel ==
  /\ RowsShown
  /\ grid.editingRow \in 1..Len(grid.filteredData)
  /\ Handle(handleCancel(grid, tables))

\* onClick of Delete / Re-Add, disabled when the schema has no is_deleted
Delete ==
  \E i \in 1..Len(grid.filteredData) :
    /\ RowsShown
    /\ grid.editingRow # i
    /\ hasIsDeletedColumn(grid.tableSchema)
    /\ Handle(handleDelete(grid, tables, otherSchemaCols, grid.filteredData[i]))

\* onClick of the fully-delete button, and the answer to confirm()
FullyDelete ==
  \E i \in 1..Len(grid.filteredData), confirmed \in BOOLEAN :
    /\ RowsShown
    /\ grid.editingRow # i
    /\ Handle(handleFullyDelete(grid, tables, otherSchemaCols,
                                grid.filteredData[i]["id"].n, confirmed))

\* The user changes tables while responses are on their way.
NextFetch == SelectTable \/ DataArrives \/ SchemaArrives \/ SetHideDeleted

SpecFetch == InitGrid /\ [][NextFetch]_vars

\* A table has been selected and both its fetches have been answered.
LoadedGrid(t) ==
  LET selected == selectTable([NoGrid EXCEPT !.open = TRUE], GridTables, t).grid
      withData == fetchTableData(selected, GridTables, t).grid
  IN fetchTableSchema(withData, GridTables, t).grid

InitLoaded ==
  /\ tables = GridTables
  /\ otherSchemaCols = {}
  /\ \E t \in DOMAIN GridTables : grid = LoadedGrid(t)
  /\ startup = NoStartup
  /\ race = NoRace
  /\ last = Idle
  /\ roundTrip = NoRoundTrip
  /\ render = NoRender
  /\ create = NoCreate
  /\ form = NoForm

\* The user works on the rows of the table that is loaded.
NextGrid ==
  \/ DataArrives \/ SetSearchTerm \/ SetHideDeleted
  \/ RowClick \/ Edit \/ InputChange \/ Save \/ Cancel \/ Delete \/ FullyDelete

SpecGrid == InitLoaded /\ [][NextGrid]_vars

\* ------------------------------------------------------------- properties
ServerKeys == {"id", "created_at", "updated_at"}

\* The request being answered addressed a table that existed when it came in.
OnTable == last.table \in DOMAIN last.pre
Before == last.pre[last.table]
After == tables[last.table]
HadRow == OnTable /\ \E r \in Before.rows : r["id"] = IntV(last.id)
RowBefore == CHOOSE r \in Before.rows : r["id"] = IntV(last.id)
OthersBefore == {r \in Before.rows : r["id"] # IntV(last.id)}

\* The payload entries an update may set, spelled out on the request itself.
Settable == {i \in 1..Len(last.payload) : last.payload[i].key \notin ServerKeys}

\* C1: an update whose payload has no key besides id, created_at and
\* updated_at (the empty payload included) is answered with the validation
\* error, issues no database statement and leaves every row as it was.
C1_EmptyUpdateRejected ==
  (last.op = "update" /\ Settable = {})
    => /\ last.resp.status = 500
       /\ last.resp.details = "No valid columns to update"
       /\ last.stmts = << >>
       /\ tables = last.pre

\* C1 witness: such an update, carrying id and created_at, addressed a row
\* that exists.
C1_Witness ==
  /\ last.op = "update" /\ Settable = {} /\ Len(last.payload) = 2
  /\ HadRow /\ "created_at" \in ColNames(Before)

\* What the claim says an update leaves behind: the addressed row with each
\* settable key at its payload value and every other column as before, all
\* other rows untouched, and the new row as the response.
UpdateApplied ==
  /\ last.resp.status = 200
  /\ last.resp.body.kind = "row"
  /\ last.resp.body.row \in After.rows
  /\ last.resp.body.row["id"] = IntV(last.id)
  /\ \A i \in Settable :
       /\ last.payload[i].key \in DOMAIN last.resp.body.row
       /\ last.resp.body.row[last.payload[i].key] = last.payload[i].val
  /\ \A c \in ColNames(Before) \ {last.payload[i].key : i \in Settable} :
       last.resp.body.row[c] = RowBefore[c]
  /\ After.rows = OthersBefore \cup {last.resp.body.row}
  /\ After.seq = Before.seq

\* The statement the claim describes: i-th SET column bound to the i-th
\* remaining value, the id argument bound last in the WHERE.
UpdateBinding ==
  /\ Len(last.stmts) = 1
  /\ LET st == last.stmts[1]
         keep == SelectSeq(last.payload, LAMBDA e : e.key \notin ServerKeys)
     IN /\ st.kind = "UPDATE" /\ st.table = last.table
        /\ Len(st.items) = Len(keep)
        /\ Len(st.params) = Len(keep) + 1
        /\ \A i \in 1..Len(keep) :
             st.items[i].col = keep[i].key /\ st.items[i].ph = i /\ st.params[i] = keep[i].val
        /\ st.whereph = Len(keep) + 1
        /\ st.params[Len(keep) + 1] = IntV(last.id)

PayloadFitsTable ==
  \A i \in Settable :
    /\ last.payload[i].key \in ColNames(Before)
    /\ ColOf(Before, last.payload[i].key).notnull => last.payload[i].val # Null

PhysicallyDeleted ==
  /\ After.rows = OthersBefore
  /\ After.cols = Before.cols /\ After.seq = Before.seq
  /\ last.resp.status = IF HadRow THEN 200 ELSE 404

\* C3: on a table without an is_deleted column the soft-delete request has
\* the effect and the answer of the hard-delete request, for every id.
C3_SoftFallsBackToHard ==
  (last.op = "delete" /\ OnTable /\ "is_deleted" \notin ColNames(Before))
    => /\ PhysicallyDeleted
       /\ tables = deleteRow(last.pre, otherSchemaCols, last.table, last.id, TRUE).tables

\* C4: on a table with an is_deleted column the soft delete of an existing
\* row answers success, keeps the row in the listing with is_deleted 'true',
\* changes no other column of it and no other row, and keeps the row count.
C4_SoftDeleteMarksRow ==
  (last.op = "delete" /\ HadRow /\ "is_deleted" \in ColNames(Before))
    => /\ last.resp.status = 200
       /\ LET marked == [RowBefore EXCEPT !["is_deleted"] = TextV("true")]
              listing == getTableData(tables, last.table).rows
          IN /\ After.rows = OthersBefore \cup {marked}
             /\ \E i \in 1..Len(listing) : listing[i] = marked
             /\ Len(listing) = Cardinality(Before.rows)

\* C4 witness: a soft delete of a live row of a table with is_deleted that
\* holds another row as well.
C4_Witness ==
  /\ last.op = "delete" /\ HadRow /\ "is_deleted" \in ColNames(Before)
  /\ RowBefore["is_deleted"] = TextV("false")
  /\ OthersBefore # {}

\* C5: a soft delete of a live row followed by the update {is_deleted:
\* 'false'} of the same row gives back the listing of before the delete.
C5_UndeleteRestoresListing ==
  roundTrip.closed
    => /\ last.op = "update" /\ last.resp.status = 200
       /\ getTableData(tables, roundTrip.table).rows = roundTrip.before

\* C5 witness: the round trip was made on a table holding two rows.
C5_Witness ==
  /\ roundTrip.closed /\ Len(roundTrip.before) = 2
  /\ last.resp.body.kind = "row" /\ last.resp.body.row["is_deleted"] = TextV("false")

\* C6: the hard delete issues one DELETE and no catalog query, whether or
\* not the table has an is_deleted column; it removes the row with that id,
\* answers success exactly when a row was removed and keeps the other rows.
C6_HardDeleteIsPhysical ==
  last.op = "hardDelete"
    => /\ Len(last.stmts) = 1
       /\ last.stmts[1].kind = "DELETE" /\ last.stmts[1].table = last.table
       /\ last.stmts[1].params[last.stmts[1].whereph] = IntV(last.id)
       /\ OnTable => PhysicallyDeleted

\* C6 witness: a hard delete removed a row of a table that has an is_deleted
\* column and left another row in it.
C6_Witness ==
  /\ last.op = "hardDelete" /\ HadRow /\ "is_deleted" \in ColNames(Before)
  /\ OthersBefore # {} /\ last.resp.status = 200

\* C7: an update, soft delete or hard delete whose id matches no row of the
\* table changes nothing and is answered 404. (Stated for requests the
\* database would otherwise take: an update with a payload that fits.)
C7_MissingRowIs404 ==
  (/\ last.op \in {"update", "delete", "hardDelete"}
   /\ OnTable /\ ~HadRow
   /\ last.op = "update" => (Settable # {} /\ PayloadFitsTable))
    => tables = last.pre /\ last.resp.status = 404

\* The INSERT the claim describes: the column list is the payload's keys in
\* payload order, the i-th placeholder is bound to the i-th value.
InsertBinding ==
  /\ Len(last.stmts) = 1
  /\ LET st == last.stmts[1]
     IN /\ st.kind = "INSERT" /\ st.table = last.table
        /\ Len(st.items) = Len(last.payload)
        /\ Len(st.params) = Len(last.payload)
        /\ \A i \in 1..Len(last.payload) :
             /\ st.items[i].col = last.payload[i].key
             /\ st.items[i].ph = i
             /\ st.params[i] = last.payload[i].val

\* C8: insertRow issues exactly one INSERT with the payload's keys as column
\* list and the i-th value bound to the i-th placeholder, and returns the
\* row as stored, all columns of the table included (id, created_at).
C8_InsertBindsInOrder ==
  last.op = "insert"
    => /\ InsertBinding
       /\ last.resp.status = 200
            => /\ last.resp.body.kind = "row"
               /\ DOMAIN last.resp.body.row = ColNames(Before)
               /\ After.rows = Before.rows \cup {last.resp.body.row}
               /\ last.resp.body.row \notin Before.rows
               /\ \A i \in 1..Len(last.payload) :
                    last.resp.body.row[last.payload[i].key] = last.payload[i].val
               /\ ~HasKey(last.payload, "id")
                    => last.resp.body.row["id"] = IntV(Before.seq + 1)

\* C8 witness: a successful insert of a two-key payload into a table with
\* created_at, the id taken from the sequence.
C8_Witness ==
  /\ last.op = "insert" /\ last.resp.status = 200 /\ Len(last.payload) = 2
  /\ ~HasKey(last.payload, "id")
  /\ last.resp.body.row["created_at"] = ClientTime
  /\ Before.rows # {}

\* C9: after a successful insert the listing shows a row whose fields other
\* than id and created_at equal the payload and whose id differs from every
\* other row's and is greater than every id assigned in the table before;
\* stated for the ids of the rows the table holds when the insert arrives.
C9_InsertedIdIsFresh ==
  (last.op = "insert" /\ last.resp.status = 200)
    => LET listing == getTableData(tables, last.table).rows
           row == last.resp.body.row
       IN /\ \E i \in 1..Len(listing) :
               /\ listing[i] = row
               /\ \A j \in 1..Len(listing) : j # i => listing[j]["id"] # row["id"]
          /\ \A i \in 1..Len(last.payload) :
               last.payload[i].key \notin {"id", "created_at"}
                 => row[last.payload[i].key] = last.payload[i].val
          /\ \A r \in Before.rows : row["id"].n > r["id"].n

\* C10: the id and created_at of an inserted row come from the database
\* (the sequence, CURRENT_TIMESTAMP) whatever the payload carries.
C10_InsertIdFromDatabase ==
  (last.op = "insert" /\ last.resp.status = 200)
    => /\ last.resp.body.row["id"] = IntV(Before.seq + 1)
       /\ "created_at" \in ColNames(Before)
            => last.resp.body.row["created_at"] = ServerTime

\* C11: the listing holds every row of the table exactly once, soft-deleted
\* rows included, in ascending order of id.
C11_ListingCompleteAscending ==
  (last.op = "list" /\ OnTable)
    => /\ last.resp.status = 200
       /\ Len(last.list) = Cardinality(After.rows)
       /\ \A r \in After.rows : \E i \in 1..Len(last.list) : last.list[i] = r
       /\ \A i \in 1..Len(last.list) : last.list[i] \in After.rows
       /\ \A i, j \in 1..Len(last.list) : i < j => last.list[i]["id"].n < last.list[j]["id"].n

\* C11 witness: a listing of two rows, the first of them soft-deleted, after
\* inserts and a delete.
C11_Witness ==
  /\ last.op = "list" /\ OnTable /\ Len(last.list) = 2
  /\ "is_deleted" \in ColNames(After)
  /\ last.list[1]["is_deleted"] = TextV("true")
  /\ After.seq = MaxId

\* C12: every statement a row operation issues names, in its text, a table
\* of the catalog and columns of that table only.
C12_IdentifiersFromCatalog ==
  last.op \in {"insert", "update", "delete", "hardDelete"}
    => \A i \in 1..Len(last.stmts) :
         last.stmts[i].kind # "CATALOG"
           => /\ last.stmts[i].table \in DOMAIN last.pre
              /\ ItemCols(last.stmts[i]) \subseteq ColNames(last.pre[last.stmts[i].table])

\* The text of a statement: everything but the bound parameter list.
SqlText(st) == [kind |-> st.kind, table |-> st.table, items |-> st.items, whereph |-> st.whereph]
SqlTexts(stmts) == [i \in 1..Len(stmts) |-> SqlText(stmts[i])]

\* The payload of the request with every value replaced by null.
Blanked == [i \in 1..Len(last.payload) |-> Entry(last.payload[i].key, Null)]

\* The request being answered would have issued statements of the same
\* text with its values blanked and with any other row id: the text
\* depends on the table name and the payload's keys alone.
SameTextForOtherValues ==
  \A id2 \in 1..MaxId :
    SqlTexts(CASE last.op = "insert" ->
                    insertRow(last.pre, otherSchemaCols, last.table, Blanked).stmts
               [] last.op = "update" ->
                    updateRow(last.pre, otherSchemaCols, last.table, id2, Blanked).stmts
               [] last.op = "delete" ->
                    deleteRow(last.pre, otherSchemaCols, last.table, id2, FALSE).stmts
               [] last.op = "hardDelete" ->
                    deleteRow(last.pre, otherSchemaCols, last.table, id2, TRUE).stmts)
      = SqlTexts(last.stmts)

\* C13: in the statements of insertRow, updateRow and deleteRow the payload
\* values and the row id are bound parameters only: every column item of an
\* INSERT or an UPDATE built from a payload is a placeholder, and the text
\* is the same whatever the values are.
C13_ValuesOnlyBound ==
  last.op \in {"insert", "update", "delete", "hardDelete"}
    => /\ SameTextForOtherValues
       /\ \A i \in 1..Len(last.stmts) :
            /\ last.stmts[i].kind \in {"UPDATE", "DELETE"}
                 => last.stmts[i].params[last.stmts[i].whereph] = IntV(last.id)
            /\ last.op \in {"insert", "update"}
                 => \A j \in 1..Len(last.stmts[i].items) :
                      /\ last.stmts[i].items[j].ph # 0
                      /\ last.stmts[i].items[j].lit = Null

\* C13 witness: a successful insert of two values.
C13_Witness ==
  /\ last.op = "insert" /\ Len(last.payload) = 2 /\ last.resp.status = 200
  /\ Len(last.stmts) = 1 /\ Len(last.stmts[1].params) = 2

\* ------------------------------------------ properties of createTable
Rendered(kw) == \E i \in 1..Len(render.def.clauses) : render.def.clauses[i].kw = kw
DefaultRendered ==
  render.def.clauses[CHOOSE i \in 1..Len(render.def.clauses) :
                       render.def.clauses[i].kw = "DEFAULT"]

\* C14: the type of a column definition is TYPE(defaultValue) for a VARCHAR
\* or CHAR with a defaultValue and TYPE(255) without one, TYPE(defaultValue)
\* for a NUMERIC or DECIMAL with a defaultValue and TYPE(10,2) without one,
\* and the bare type name for every other type.
C14_TypeRendering ==
  render.done
    => /\ render.def.type.name = render.col.type
       /\ (render.col.type \in {"VARCHAR", "CHAR"} /\ render.col.defaultValue # << >>)
            => render.def.type.sized /\ render.def.type.size = render.col.defaultValue
       /\ (render.col.type \in {"VARCHAR", "CHAR"} /\ render.col.defaultValue = << >>)
            => render.def.type.sized /\ Text(render.def.type.size) = "255"
       /\ (render.col.type \in {"NUMERIC", "DECIMAL"} /\ render.col.defaultValue # << >>)
            => render.def.type.sized /\ render.def.type.size = render.col.defaultValue
       /\ (render.col.type \in {"NUMERIC", "DECIMAL"} /\ render.col.defaultValue = << >>)
            => render.def.type.sized /\ Text(render.def.type.size) = "10,2"
       /\ render.col.type \notin {"VARCHAR", "CHAR", "NUMERIC", "DECIMAL"}
            => ~render.def.type.sized

\* C14 witness: a CHAR column sized by its defaultValue field.
C14_Witness ==
  /\ render.done /\ render.col.type = "CHAR" /\ Text(render.col.defaultValue) = "100"
  /\ render.def.type.sized /\ Text(render.def.type.size) = "100"

\* C15: the definition of a VARCHAR, CHAR, NUMERIC or DECIMAL column carries
\* no DEFAULT clause made from the defaultValue field that sizes it.
C15_SizeFieldIsNoDefault ==
  (render.done /\ render.col.type \in {"VARCHAR", "CHAR", "NUMERIC", "DECIMAL"})
    => ~Rendered("DEFAULT")

\* C16: a column definition carries the identity clause exactly when
\* isAutoIncrement is set and the type is INTEGER or BIGINT; it carries a
\* DEFAULT clause only without an identity clause, with a defaultValue, a
\* type other than SERIAL and isAutoIncrement unset; the default is the
\* defaultValue, in single quotes exactly for TEXT, VARCHAR and CHAR.
C16_IdentityAndDefault ==
  render.done
    => /\ Rendered("GENERATED ALWAYS AS IDENTITY")
            <=> (render.col.isAutoIncrement /\ render.col.type \in {"INTEGER", "BIGINT"})
       /\ Rendered("DEFAULT")
            => /\ ~Rendered("GENERATED ALWAYS AS IDENTITY")
               /\ render.col.defaultValue # << >>
               /\ render.col.type # "SERIAL"
               /\ ~render.col.isAutoIncrement
               /\ DefaultRendered.expr = render.col.defaultValue
               /\ DefaultRendered.quoted <=> render.col.type \in {"TEXT", "VARCHAR", "CHAR"}

\* C16 witness: an auto-increment BIGINT with a defaultValue gets the
\* identity clause and no default.
C16_Witness ==
  /\ render.done /\ render.col.type = "BIGINT" /\ render.col.isAutoIncrement
  /\ render.col.defaultValue # << >>
  /\ Rendered("GENERATED ALWAYS AS IDENTITY") /\ ~Rendered("DEFAULT")

\* A create-table request was answered and its CREATE TABLE made a table.
TableMade == create.op = "create" /\ DOMAIN tables # DOMAIN create.pre
NewTable == tables[CHOOSE t \in DOMAIN tables : t \notin DOMAIN create.pre]
Declared(columns, name) == \E i \in 1..Len(columns) : Fold(columns[i].name) = name

\* C17: between createTable calls every table made by createTable has a
\* created_at column; the call that made a table added the column, with
\* the CURRENT_TIMESTAMP default, exactly when the request declared none.
C17_CreatedAtAlwaysPresent ==
  /\ \A t \in DOMAIN tables : "created_at" \in ColNames(tables[t])
  /\ TableMade
       => ((/\ Len(NewTable.cols) = Len(create.columns.items) + 1
            /\ NewTable.cols[Len(NewTable.cols)]
                 = ColumnDef("created_at", "TIMESTAMP", FALSE, "CURRENT_TIMESTAMP"))
           <=> ~Declared(create.columns.items, "created_at"))

ColumnNames(list) == [i \in 1..Len(list) |-> list[i].column_name]
DeclaredNames(columns) == [i \in 1..Len(columns) |-> Text(columns[i].name)]

\* C18: a schema request for the table of the last successful create-table
\* request lists the column names of that request in their order, followed
\* by created_at when the request declared none.
C18_SchemaRoundTrip ==
  (create.op = "schema" /\ create.made.tableName = create.tableName)
    => ColumnNames(create.list)
         = DeclaredNames(create.made.columns.items)
             \o (IF \E i \in 1..Len(create.made.columns.items) :
                      Text(create.made.columns.items[i].name) = "created_at"
                   THEN << >> ELSE <<"created_at">>)

\* A request body createTable must not be called for.
Malformed(tableName, columns) ==
  \/ tableName.kind # "string" \/ ~MatchesIdentifierPattern(tableName.chars)
  \/ columns.kind # "array"
  \/ \E i \in 1..Len(columns.items) : ~MatchesIdentifierPattern(columns.items[i].name)

\* C20: a create-table request executes a CREATE TABLE statement only when
\* the table name and every column name match the identifier pattern; a
\* malformed request is answered with 400 and executes no statement.
C20_CreateOnlyWellFormed ==
  create.op = "create"
    => /\ (\E i \in 1..Len(create.stmts) : create.stmts[i].kind = "CREATE")
            => ~Malformed(create.tableName, create.columns)
       /\ Malformed(create.tableName, create.columns)
            => create.resp.status = 400 /\ create.stmts = << >>

\* ---------------------------------------------- properties of the designer
\* The form the specification calls valid.
ValidForm(tableName, columns) ==
  /\ tableName # << >> /\ MatchesIdentifierPattern(tableName)
  /\ Len(columns) >= 2
  /\ \E i \in 1..Len(columns) : columns[i].isPrimaryKey
  /\ \A i \in 1..Len(columns) :
       /\ MatchesIdentifierPattern(columns[i].name)
       /\ columns[i].type \in {"VARCHAR", "CHAR"} => IsPositiveInteger(columns[i].defaultValue)

\* C19: the designer has a create-table request in flight only for a valid
\* form: a name and column names that match the identifier pattern, at
\* least 2 columns, a primary key, and a positive length in the
\* default-value field of every VARCHAR and CHAR column.
C19_SendsOnlyValidForms ==
  form.isSubmitting => ValidForm(form.sent.tableName.chars, form.sent.columns.items)

C22_ErrorsCarryDetails ==
  /\ last.op # "none" => last.resp.status \in {200, 400, 404, 500}
  /\ last.resp.status = 500 => last.resp.hasDetails /\ last.resp.details # ""

\* The column names describeTable lists for a table of the public schema.
Described(db, t) ==
  LET list == getTableSchema(db, t) IN {list[i].column_name : i \in 1..Len(list)}

\* C26: deleteRow marks the row (UPDATE) exactly when describeTable lists an
\* is_deleted column for the table, and createTable adds created_at exactly
\* when describeTable lists none after the CREATE; tables of other schemas
\* decide neither.
C26_ChecksAgreeWithDescribeTable ==
  /\ (last.op = "delete" /\ Len(last.stmts) = 2)
       => (last.stmts[2].kind = "UPDATE" <=> "is_deleted" \in Described(last.pre, last.table))
  /\ (create.op = "create" /\ create.resp.status = 200)
       => (Len(create.stmts) = 3
             <=> ~Declared(create.columns.items, "created_at"))

\* C24: no column of the form, and no column of a submitted request, is
\* both primary key and nullable.
C24_PrimaryKeyNotNullable ==
  /\ \A i \in 1..Len(form.columns) :
       ~(form.columns[i].isPrimaryKey /\ form.columns[i].isNullable)
  /\ form.isSubmitting
       => \A i \in 1..Len(form.sent.columns.items) :
            ~(form.sent.columns.items[i].isPrimaryKey /\ form.sent.columns.items[i].isNullable)

PrimaryKeys(columns) == {i \in 1..Len(columns) : columns[i].isPrimaryKey}

\* C30: the form never has two columns marked primary key, and removeColumn
\* called on a column marked primary key leaves every column in place.
C30_OnePrimaryKeyKept ==
  /\ Cardinality(PrimaryKeys(form.columns)) <= 1
  /\ \A i \in PrimaryKeys(form.columns) : removeColumn(form, i).columns = form.columns

\* C30 witness: the mark was moved from the id column to an added column.
C30_Witness ==
  /\ Len(form.columns) = 2
  /\ PrimaryKeys(form.columns) = {2}
  /\ form.columns[1].type = "SERIAL"

\* C23: every retry after an EADDRINUSE failure is on a port numerically
\* higher than the port that just failed.
C23_RetryOnHigherPort ==
  [][(startup.phase = "error" /\ startup.code = "EADDRINUSE" /\ startup'.phase = "binding")
       => startup'.port > startup.port]_vars

\* The columns of the table of the delete call in a database; none when
\* the table is not there.
RaceColumns(db) == IF race.table \in DOMAIN db THEN db[race.table].cols ELSE << >>
RaceRows(db) == IF race.table \in DOMAIN db THEN db[race.table].rows ELSE {}

C28_LoadedStateOfSelectedTable ==
  (grid.open /\ grid.selectedTable # "" /\ grid.pending = {})
    => /\ grid.tableData = getTableData(tables, grid.selectedTable).rows
       /\ grid.tableSchema = getTableSchema(tables, grid.selectedTable)
       /\ grid.newRow = initialRow(getTableSchema(tables, grid.selectedTable))

\* C27: an edit typed into a displayed row changes, and a save of a
\* displayed row PUTs, the row of tableData whose id is the id of that
\* displayed row.
C27_EditsTheDisplayedRow ==
  grid.sent.handler \in {"handleInputChange", "handleSave"}
    => (grid.sent.shown # 0 => grid.sent.id = grid.sent.shown)

RowIds(db) == [t \in DOMAIN db |-> {r["id"] : r \in db[t].rows}]
Flipped(row) == TextV(IF ReadsDeleted(row) THEN "false" ELSE "true")
LocalRow(g, id) == g.tableData[CHOOSE i \in 1..Len(g.tableData) : g.tableData[i]["id"] = id]
StoredRow(db, t, id) == CHOOSE r \in db[t].rows : r["id"] = id

\* The grid and the database after Delete / Re-Add is pressed on a
\* displayed row, and after it is pressed once more on that row where the
\* grid still holds it.
PressedOnce(g, db, row) == handleDelete(g, db, otherSchemaCols, row)
PressedTwice(g, db, row) ==
  LET once == PressedOnce(g, db, row)
  IN IF \A i \in 1..Len(once.grid.tableData) : once.grid.tableData[i]["id"] # row["id"]
       THEN once
     ELSE handleDelete(once.grid, once.tables, otherSchemaCols, LocalRow(once.grid, row["id"]))

\* C29: a press of Delete / Re-Add sends one PUT to the selected table whose
\* body is is_deleted alone, with the opposite of the value the row
\* displays, and removes no row; without an is_deleted column in the loaded
\* schema handleDelete sends nothing and changes nothing; two presses on a
\* displayed row leave the grid and the database with the value the row
\* displayed; rows leave the database only by a confirmed handleFullyDelete.
C29_DeleteButtonOnlyFlipsFlag ==
  [][/\ (grid'.sent # grid.sent /\ grid'.sent.handler = "handleDelete")
          => /\ hasIsDeletedColumn(grid.tableSchema)
             /\ grid'.sent.method = "PUT" /\ grid'.sent.table = grid.selectedTable
             /\ \E i \in 1..Len(grid.filteredData) :
                  /\ grid.filteredData[i]["id"] = IntV(grid'.sent.id)
                  /\ grid'.sent.body = <<Entry("is_deleted", Flipped(grid.filteredData[i]))>>
             /\ RowIds(tables') = RowIds(tables)
     /\ RowIds(tables') # RowIds(tables)
          => grid'.sent # grid.sent /\ grid'.sent.handler = "handleFullyDelete"
     /\ \A i \in 1..Len(grid'.filteredData) :
          LET row == grid'.filteredData[i]
          IN IF ~hasIsDeletedColumn(grid'.tableSchema)
               THEN PressedOnce(grid', tables', row) = Handled(grid', tables')
             ELSE LET twice == PressedTwice(grid', tables', row)
                  IN /\ \E j \in 1..Len(twice.grid.tableData) :
                          /\ twice.grid.tableData[j]["id"] = row["id"]
                          /\ twice.grid.tableData[j]["is_deleted"] = row["is_deleted"]
                     /\ row["id"] \in RowIds(tables')[grid'.selectedTable]
                          => StoredRow(twice.tables, grid'.selectedTable, row["id"])["is_deleted"]
                               = row["is_deleted"]]_vars

\* C29 witness: Re-Add was pressed on a soft-deleted row and the row is
\* stored as not deleted.
C29_Witness ==
  /\ grid.sent.handler = "handleDelete" /\ grid.sent.ok
  /\ grid.sent.body = <<Entry("is_deleted", TextV("false"))>>
  /\ StoredRow(tables, grid.sent.table, IntV(grid.sent.id))["is_deleted"] = TextV("false")
  /\ LocalRow(grid, IntV(grid.sent.id))["is_deleted"] = TextV("false")

====
